---- MODULE Spec2Model ----
(***************************************************************************)
(* TranslateEngine: the React editor (App), its batch translator and       *)
(* translation memory, and the parser/applier service.                     *)
(*                                                                         *)
(* Part I models the App component as a state machine: one action per      *)
(* event handler, effect or promise continuation.  Texts are atoms there:  *)
(* the handlers only compare them (===) and test them for emptiness.       *)
(* Part II models the parsers and applyTranslations as functions of a      *)
(* file's content, and their use as a second state machine.  Part III      *)
(* models import and export over named files: onDrop's format detection    *)
(* and handleDownload's selection of a file's entries.                     *)
(***************************************************************************)
EXTENDS Integers, Sequences, FiniteSets, TLC

(***************************************************************************)
(* Bounds of the model.                                                    *)
(***************************************************************************)
\* entries extracted from the large map file: one more than a batch holds
MapEntries == 11
\* user operations (imports, edits, bulk actions, ...) explored per behaviour
MaxOps == 3
\* period of the provider's answer pattern (answers vary with the index)
PatLen == 2
\* a short answer list misses at most this many trailing results, or all
MaxShort == 2
\* array indices that occur in a path or a file
MaxIndex == 7
\* entries of one file that hold a translation at a time
MaxTranslated == 2

\* const batchSize = 10
batchSize == 10

VARIABLES project, tm, targetLang, useTM, isTranslating, run, lastDeps,
          nextId, ops, op,
          file, fileEntries, parsedBy, tag, translatedContent, reapplied, phase,
          request, itemResults, response

appVars == <<project, tm, targetLang, useTM, isTranslating, run, lastDeps,
             nextId, ops, op>>

\* Part II: a file's content, the entries extracted from it and the parser
\* that did, the engine tag of the export, its output and the output of a
\* second export
applyVars == <<file, fileEntries, parsedBy, tag, translatedContent, reapplied, phase>>

\* Part IV: the request the translate endpoint is serving, the results of
\* its per-item backend calls, and its answer
endpointVars == <<request, itemResults, response>>

vars == <<appVars, applyVars, endpointVars>>

(***************************************************************************)
(* Data                                                                    *)
(***************************************************************************)
\* no request is being served; no answer was sent
NoRequest == [server |-> "none", provider |-> "none", texts |-> <<>>,
              valid |-> FALSE, apiKey |-> FALSE]
NoResponse == [status |-> 0, translated |-> <<>>]

Undefined == "undefined"
Engines == {"rpgmaker", "kirikiri"}
Langs == {"Indonesian", "English"}
\* original texts that the catalogued files contain; a code-401 command with
\* parameters [""] is extracted like any other (parserService.ts:30-37)
Originals == {"Attack", "Guard", ""}
\* what a backend may answer for one string ("" is an empty answer)
Answers == {"Serang", ""}
\* what the user may type into the textarea
EditVals == {"Manual", ""}

OriginalCycle == <<"Attack", "Guard", "">>

\* The files a user may drop, with the
\* engine onDrop detects for each and the original texts its parser extracts.
FileNames == {"Map001.json", "scene.ks"}

DetectedEngine(name) == IF name = "Map001.json" THEN "rpgmaker" ELSE "kirikiri"

ExtractedOriginals(name) ==
    IF name = "Map001.json"
    THEN [i \in 1..MapEntries |-> OriginalCycle[((i - 1) % 3) + 1]]
    ELSE <<"Attack">>

\* GameScriptEntry (id, original, translated, tmEngineMatch); the id stands
\* for `<prefix>-<filename>-<indices>`.
ParsedEntries(name) ==
    LET o == ExtractedOriginals(name)
    IN  [i \in 1..Len(o) |-> [id |-> <<name, i>>, original |-> o[i],
                              translated |-> "", tmEngineMatch |-> Undefined]]

NoProject == [id |-> 0, engine |-> "none", entries |-> <<>>, files |-> <<>>]

FileLists == {<<a>> : a \in FileNames}
             \cup {fl \in FileNames \X FileNames : fl[1] # fl[2]}

(***************************************************************************)
(* Translation memory (services/tmService): keyed by targetLang:original.  *)
(***************************************************************************)
NoMatch == [translated |-> "", engine |-> "none"]
EmptyTM == [key \in Langs \X Originals |-> NoMatch]

saveToTM(t, original, translated, lang, engine) ==
    [t EXCEPT ![<<lang, original>>] = [translated |-> translated, engine |-> engine]]

findInTM(t, original, lang) == t[<<lang, original>>]

IsMatch(m) == m # NoMatch

\* the memory persists across sessions: a session may start with a stored
\* pair, or with one for each language
InitialTMs ==
    {EmptyTM,
     saveToTM(EmptyTM, "Attack", "Serang", "Indonesian", "rpgmaker"),
     saveToTM(saveToTM(EmptyTM, "Attack", "Serang", "Indonesian", "rpgmaker"),
              "Attack", "Strike", "English", "kirikiri")}

(***************************************************************************)
(* Provider call (translateGameText)                                       *)
(***************************************************************************)
\* What comes back from the endpoint: a failure (fetch throws, non-OK status,
\* unreadable body), or a list of k <= n answers; answer i is pat[i mod PatLen].
AnswerCounts(n) == {0} \cup {k \in 0..n : n - k <= MaxShort}

Responses(n) ==
    {[ok |-> FALSE, k |-> 0, pat |-> [j \in 1..PatLen |-> ""]]}
    \cup {[ok |-> TRUE, k |-> k, pat |-> p] :
             k \in AnswerCounts(n), p \in [1..PatLen -> Answers]}

translatedTexts(resp) == [i \in 1..resp.k |-> resp.pat[((i - 1) % PatLen) + 1]]

\* Variant: a missing or empty answer is left empty instead of echoing.
translateGameText_NoFallback(texts, resp) ==
    IF resp.ok
    THEN [i \in 1..Len(texts) |->
            [original |-> texts[i],
             translated |-> IF i <= resp.k THEN translatedTexts(resp)[i] ELSE ""]]
    ELSE [i \in 1..Len(texts) |-> [original |-> texts[i], translated |-> ""]]

\* translatedTexts[index] || original ; catch: every text maps to itself
translateGameText(texts, resp) ==
    IF resp.ok
    THEN [i \in 1..Len(texts) |->
            [original |-> texts[i],
             translated |-> IF i <= resp.k /\ translatedTexts(resp)[i] # ""
                            THEN translatedTexts(resp)[i]
                            ELSE texts[i]]]
    ELSE [i \in 1..Len(texts) |-> [original |-> texts[i], translated |-> texts[i]]]

RECURSIVE Concat(_)
Concat(seqs) == IF Len(seqs) = 0 THEN <<>> ELSE Head(seqs) \o Concat(Tail(seqs))

Min(a, b) == IF a <= b THEN a ELSE b

(***************************************************************************)
(* Part II: the parser/applier service (parserService.ts).                 *)
(*                                                                         *)
(* A text is a sequence of characters; a word such as "Hello" stands for   *)
(* one letter.  A JSON document is what JSON.parse makes of it (a value)   *)
(* together with the layout of its text; JSON.parse forgets the layout and *)
(* JSON.stringify(data, null, 2) produces the two-space layout.  A text    *)
(* of the catalogue is never a valid JSON text.                            *)
(***************************************************************************)
LF == "\n"
CR == "\r"
Quote == "\""
Backslash == "\\"

\* \s
IsSpace(c) == c \in {" ", CR, LF}
\* [\w\d_]
IsWordChar(c) == ~IsSpace(c) /\ c \notin {Quote, Backslash, ";", "/", "*", "@", "[", "]", "!", ""}

At(text, i) == IF i \in 1..Len(text) THEN text[i] ELSE ""

Least(S) == CHOOSE x \in S : \A y \in S : x <= y
Greatest(S) == CHOOSE x \in S : \A y \in S : y <= x

\* String.prototype.trim
Trim(text) ==
    LET keep == {i \in 1..Len(text) : ~IsSpace(text[i])}
    IN  IF keep = {} THEN <<>> ELSE SubSeq(text, Least(keep), Greatest(keep))

\* length of the match of /\r?\n/ at position i, 0 when it does not match
LineBreakAt(text, i) ==
    IF At(text, i) = LF THEN 1
    ELSE IF At(text, i) = CR /\ At(text, i + 1) = LF THEN 2
    ELSE 0

\* length of the match of /\r?\n\r?\n/ at position i, 0 when it does not match
BlankLineAt(text, i) ==
    IF LineBreakAt(text, i) = 0 \/ LineBreakAt(text, i + LineBreakAt(text, i)) = 0
    THEN 0
    ELSE LineBreakAt(text, i) + LineBreakAt(text, i + LineBreakAt(text, i))

\* content.split(/\r?\n/)
RECURSIVE SplitLinesFrom(_, _, _)
SplitLinesFrom(text, i, start) ==
    IF i > Len(text) THEN <<SubSeq(text, start, Len(text))>>
    ELSE IF LineBreakAt(text, i) > 0
    THEN <<SubSeq(text, start, i - 1)>>
         \o SplitLinesFrom(text, i + LineBreakAt(text, i), i + LineBreakAt(text, i))
    ELSE SplitLinesFrom(text, i + 1, start)

SplitLines(text) == SplitLinesFrom(text, 1, 1)

\* content.split(/\r?\n\r?\n/)
RECURSIVE SplitBlocksFrom(_, _, _)
SplitBlocksFrom(text, i, start) ==
    IF i > Len(text) THEN <<SubSeq(text, start, Len(text))>>
    ELSE IF BlankLineAt(text, i) > 0
    THEN <<SubSeq(text, start, i - 1)>>
         \o SplitBlocksFrom(text, i + BlankLineAt(text, i), i + BlankLineAt(text, i))
    ELSE SplitBlocksFrom(text, i + 1, start)

SplitBlocks(text) == SplitBlocksFrom(text, 1, 1)

\* Array.prototype.join
RECURSIVE Join(_, _)
Join(parts, sep) ==
    IF Len(parts) = 0 THEN <<>>
    ELSE IF Len(parts) = 1 THEN parts[1]
    ELSE parts[1] \o sep \o Join(Tail(parts), sep)

(***************************************************************************)
(* JavaScript values, as JSON.parse builds them                            *)
(***************************************************************************)
Undef == [k |-> "undefined", v |-> <<>>]
Null == [k |-> "null", v |-> <<>>]
Num(n) == [k |-> "number", v |-> <<n>>]
Str(text) == [k |-> "string", v |-> text]
Arr(items) == [k |-> "array", v |-> items]
Obj(members) == [k |-> "object", v |-> members]
Member(key, val) == [key |-> key, val |-> val]

Nullish(x) == x.k \in {"undefined", "null"}

\* ToBoolean
Truthy(x) ==
    /\ ~Nullish(x)
    /\ x.k = "string" => x.v # <<>>
    /\ x.k = "number" => x.v # <<0>>

\* array indices are written and read as canonical decimal strings
IsIndex(name) == \E n \in 0..MaxIndex : name = ToString(n)
ParseInt(name) == CHOOSE n \in 0..MaxIndex : name = ToString(n)

\* x[name] for an x that is neither null nor undefined (own properties, the
\* elements and the length)
Prop(x, name) ==
    CASE x.k = "object" ->
            LET at == {i \in 1..Len(x.v) : x.v[i].key = name}
            IN  IF at = {} THEN Undef ELSE x.v[Least(at)].val
      [] x.k = "array" ->
            IF IsIndex(name) /\ ParseInt(name) < Len(x.v) THEN x.v[ParseInt(name) + 1]
            ELSE IF name = "length" THEN Num(Len(x.v))
            ELSE Undef
      [] x.k = "string" ->
            IF IsIndex(name) /\ ParseInt(name) < Len(x.v)
            THEN Str(<<x.v[ParseInt(name) + 1]>>)
            ELSE IF name = "length" THEN Num(Len(x.v))
            ELSE Undef
      [] OTHER -> Undef

\* the outcome of a piece of code that may throw: the data it leaves
Done(data) == [threw |-> FALSE, data |-> data]
Threw(data) == [threw |-> TRUE, data |-> data]

\* x[name] = val.  The module is an ES module (strict code): assigning to a
\* property of a primitive throws a TypeError.  JSON.stringify serialises the
\* elements of an array only, a hole as null.
SetProp(x, name, val) ==
    CASE x.k = "object" ->
            LET at == {i \in 1..Len(x.v) : x.v[i].key = name}
            IN  IF at = {}
                THEN Done(Obj(Append(x.v, Member(name, val))))
                ELSE Done(Obj([x.v EXCEPT ![Least(at)] = Member(name, val)]))
      [] x.k = "array" ->
            IF IsIndex(name)
            THEN Done(Arr([i \in 1..(IF ParseInt(name) < Len(x.v)
                                     THEN Len(x.v) ELSE ParseInt(name) + 1) |->
                            IF i = ParseInt(name) + 1 THEN val
                            ELSE IF i <= Len(x.v) THEN x.v[i]
                            ELSE Null]))
            ELSE IF name = "length" THEN Threw(x)
            ELSE Done(x)
      [] OTHER -> Threw(x)

\* x after its property `name` (an object or an array reached through it)
\* was mutated in place into `child`
WithProp(x, name, child) ==
    CASE x.k = "object" ->
            Obj([i \in 1..Len(x.v) |->
                    IF x.v[i].key = name THEN Member(name, child) ELSE x.v[i]])
      [] x.k = "array" ->
            Arr([i \in 1..Len(x.v) |->
                    IF IsIndex(name) /\ i = ParseInt(name) + 1 THEN child ELSE x.v[i]])
      [] OTHER -> x

(***************************************************************************)
(* Files                                                                   *)
(***************************************************************************)
HasMembers(x) == x.k \in {"object", "array"} /\ x.v # <<>>

TextFile(text) == [kind |-> "text", layout |-> "text", value |-> text]
\* a value without members has one text in both layouts
JSONFile(layout, value) ==
    [kind |-> "json", layout |-> IF HasMembers(value) THEN layout ELSE "indent2",
     value |-> value]

NoContent == TextFile(<<>>)

(***************************************************************************)
(* Entry paths: the characters of GameScriptEntry.path, grouped into names *)
(* (a run without dot, bracket or digit run), dots, bracketed indices [n]  *)
(* and bare digit runs.                                                    *)
(***************************************************************************)
Key(name) == [t |-> "key", v |-> name]
Dot == [t |-> "dot", v |-> "."]
Idx(n) == [t |-> "idx", v |-> ToString(n)]
Digits(n) == [t |-> "num", v |-> ToString(n)]

TokenText(tok) == IF tok.t = "idx" THEN "[" \o tok.v \o "]" ELSE tok.v

\* the path characters of an object key: a key with a dot in it reads as two
\* names
KeyTokens(key) ==
    IF key = "a.b" THEN <<Key("a"), Dot, Key("b")>> ELSE <<Key(key)>>

\* GameScriptEntry
Entry(kind, of, original, path) ==
    [id |-> [kind |-> kind, of |-> of], original |-> original,
     translated |-> <<>>, path |-> path]

\* what a parser has when it stops: the entries pushed so far, and whether
\* it stopped on an exception
Pushed(entries) == [entries |-> entries, threw |-> FALSE]
Throws == [entries |-> <<>>, threw |-> TRUE]

\* statements (or iterations of a forEach) run in order: an exception in one
\* skips the rest and keeps what was pushed
InOrder(steps) ==
    LET thrown == {i \in 1..Len(steps) : steps[i].threw}
        stop == IF thrown = {} THEN Len(steps) ELSE Least(thrown)
    IN  [entries |-> Concat([i \in 1..stop |-> steps[i].entries]),
         threw |-> thrown # {}]

(***************************************************************************)
(* parseRPGMaker                                                           *)
(***************************************************************************)
\* the body of `list.forEach((cmd, cmdIdx) => ...)`: code 401 and, in a map
\* event only, code 102
Command(cmd, kind, of, path, choices) ==
    IF Nullish(cmd) THEN Throws
    ELSE InOrder(<<
        IF Prop(cmd, "code") = Num(401)
        THEN IF Nullish(Prop(cmd, "parameters")) THEN Throws
             ELSE Pushed(<<Entry(kind, of, Prop(Prop(cmd, "parameters"), "0"),
                                 path \o <<Dot, Key("parameters"), Idx(0)>>)>>)
        ELSE Pushed(<<>>),
        IF choices /\ Prop(cmd, "code") = Num(102)
        THEN IF Nullish(Prop(cmd, "parameters")) THEN Throws
             ELSE IF Prop(Prop(cmd, "parameters"), "0").k # "array" THEN Throws
             ELSE Pushed([j \in 1..Len(Prop(Prop(cmd, "parameters"), "0").v) |->
                            Entry("choice", of \o <<j - 1>>,
                                  Prop(Prop(cmd, "parameters"), "0").v[j],
                                  path \o <<Dot, Key("parameters"), Idx(0), Idx(j - 1)>>)])
        ELSE Pushed(<<>>) >>)

\* owner.list.forEach(...)
CommandList(owner, kind, of, path, choices) ==
    IF Nullish(owner) THEN Throws
    ELSE IF Prop(owner, "list").k # "array" THEN Throws
    ELSE InOrder([c \in 1..Len(Prop(owner, "list").v) |->
                    Command(Prop(owner, "list").v[c], kind, of \o <<c - 1>>,
                            path \o <<Dot, Key("list"), Idx(c - 1)>>, choices)])

\* owner.pages.forEach((page, pageIdx) => page.list.forEach(...))
Pages(owner, kind, of, path, choices) ==
    IF Prop(owner, "pages").k # "array" THEN Throws
    ELSE InOrder([p \in 1..Len(Prop(owner, "pages").v) |->
                    CommandList(Prop(owner, "pages").v[p], kind, of \o <<p - 1>>,
                                path \o <<Dot, Key("pages"), Idx(p - 1)>>, choices)])

\* if (data.events) { data.events.forEach(...) }
MapEvents(data) ==
    IF ~Truthy(Prop(data, "events")) THEN Pushed(<<>>)
    ELSE IF Prop(data, "events").k # "array" THEN Throws
    ELSE InOrder([e \in 1..Len(Prop(data, "events").v) |->
                    IF ~Truthy(Prop(data, "events").v[e]) THEN Pushed(<<>>)
                    ELSE Pages(Prop(data, "events").v[e], "map", <<e - 1>>,
                               <<Key("events"), Idx(e - 1)>>, TRUE)])

\* Array.isArray(data) && data.length > 0 && data[0] === null
NullHeaded(data) == data.k = "array" /\ Len(data.v) > 0 /\ data.v[1] = Null

\* CommonEvents.json
CommonEvents(data) ==
    IF ~(NullHeaded(data) /\ Len(data.v) > 1) THEN Pushed(<<>>)
    ELSE IF Nullish(data.v[2]) THEN Throws
    ELSE IF ~Truthy(Prop(data.v[2], "list")) THEN Pushed(<<>>)
    ELSE InOrder([e \in 1..Len(data.v) |->
                    IF ~Truthy(data.v[e]) THEN Pushed(<<>>)
                    ELSE CommandList(data.v[e], "common", <<e - 1>>,
                                     <<Idx(e - 1)>>, FALSE)])

\* if (item[field]) entries.push({... path: `[${idx}].${field}` ...})
Field(item, kind, idx, field) ==
    IF Truthy(Prop(item, field))
    THEN <<Entry(kind, <<idx, field>>, Prop(item, field),
                 <<Idx(idx), Dot, Key(field)>>)>>
    ELSE <<>>

\* the fields a table block reads from each row
Fields(item, kind, idx, fields) ==
    Concat([f \in 1..Len(fields) |-> Field(item, kind, idx, fields[f])])

\* Actors.json
Actors(data) ==
    IF ~(NullHeaded(data) /\ Len(data.v) > 1 /\ Truthy(data.v[2])) THEN Pushed(<<>>)
    ELSE IF Prop(data.v[2], "nickname") = Undef THEN Pushed(<<>>)
    ELSE Pushed(Concat([i \in 1..Len(data.v) |->
                    IF ~Truthy(data.v[i]) THEN <<>>
                    ELSE Fields(data.v[i], "actor", i - 1,
                                <<"name", "nickname", "profile">>)]))

\* the array of a System.json term list, or one of its type lists
Terms(list, kind, path) ==
    Concat([i \in 1..Len(list.v) |->
              IF Truthy(list.v[i])
              THEN <<Entry(kind, <<i - 1>>, list.v[i], path \o <<Idx(i - 1)>>)>>
              ELSE <<>>])

\* if (data.terms[name]) { data.terms[name].forEach(...) }
TermList(terms, name, kind) ==
    IF ~Truthy(Prop(terms, name)) THEN Pushed(<<>>)
    ELSE IF Prop(terms, name).k # "array" THEN Throws
    ELSE Pushed(Terms(Prop(terms, name), kind, <<Key("terms"), Dot, Key(name)>>))

\* Object.entries(data.terms.messages)
ObjectEntries(x) ==
    CASE x.k = "object" -> x.v
      [] x.k = "array" -> [i \in 1..Len(x.v) |-> Member(ToString(i - 1), x.v[i])]
      [] x.k = "string" -> [i \in 1..Len(x.v) |-> Member(ToString(i - 1), Str(<<x.v[i]>>))]
      [] OTHER -> <<>>

Messages(terms) ==
    IF ~Truthy(Prop(terms, "messages")) THEN Pushed(<<>>)
    ELSE Pushed(Concat([i \in 1..Len(ObjectEntries(Prop(terms, "messages"))) |->
            LET m == ObjectEntries(Prop(terms, "messages"))[i]
            IN  IF m.val.k = "string" /\ m.val.v # <<>>
                THEN <<Entry("term-msg", <<m.key>>, m.val,
                             <<Key("terms"), Dot, Key("messages"), Dot>>
                             \o KeyTokens(m.key))>>
                ELSE <<>>]))

TypeList(data, field) ==
    IF Prop(data, field).k # "array" THEN <<>>
    ELSE Terms(Prop(data, field), field, <<Key(field)>>)

\* System.json
System(data) ==
    IF Prop(data, "gameTitle") = Undef \/ Prop(data, "terms") = Undef THEN Pushed(<<>>)
    ELSE InOrder(<<
        Pushed(<<Entry("system", <<"title">>, Prop(data, "gameTitle"),
                       <<Key("gameTitle")>>)>>),
        IF Nullish(Prop(data, "terms")) THEN Throws
        ELSE InOrder(<<TermList(Prop(data, "terms"), "basic", "term-basic"),
                       TermList(Prop(data, "terms"), "commands", "term-cmd"),
                       TermList(Prop(data, "terms"), "params", "term-param"),
                       Messages(Prop(data, "terms"))>>),
        Pushed(TypeList(data, "weaponTypes") \o TypeList(data, "armorTypes")
               \o TypeList(data, "skillTypes") \o TypeList(data, "elements")) >>)

\* Items, Skills, Weapons, Armors, Enemies, States
DataTable(data) ==
    IF ~(NullHeaded(data) /\ Len(data.v) > 1 /\ Truthy(data.v[2])) THEN Pushed(<<>>)
    ELSE IF Prop(data.v[2], "name") = Undef THEN Pushed(<<>>)
    ELSE Pushed(Concat([i \in 1..Len(data.v) |->
                    IF ~Truthy(data.v[i]) THEN <<>>
                    ELSE Fields(data.v[i], "data", i - 1,
                                <<"name", "description", "message1", "message2",
                                  "message3", "message4", "victoryMessage",
                                  "defeatMessage">>)]))

\* Troops.json
Troops(data) ==
    IF ~(NullHeaded(data) /\ Len(data.v) > 1 /\ Truthy(data.v[2])) THEN Pushed(<<>>)
    ELSE IF Prop(data.v[2], "members") = Undef THEN Pushed(<<>>)
    ELSE InOrder([i \in 1..Len(data.v) |->
                    IF ~Truthy(data.v[i]) THEN Pushed(<<>>)
                    ELSE InOrder(<<
                            Pushed(Field(data.v[i], "troop", i - 1, "name")),
                            Pages(data.v[i], "troop-cmd", <<i - 1>>,
                                  <<Idx(i - 1)>>, FALSE)>>)])

\* the six blocks run one after the other inside one try; the catch keeps
\* the entries pushed before the exception
parseRPGMaker(content) ==
    IF content.kind # "json" THEN <<>>
    ELSE IF Nullish(content.value) THEN <<>>
    ELSE InOrder(<<MapEvents(content.value), CommonEvents(content.value),
                   Actors(content.value), System(content.value),
                   DataTable(content.value), Troops(content.value)>>).entries

(***************************************************************************)
(* parseGenericJSON                                                        *)
(***************************************************************************)
RECURSIVE traverse(_, _)
traverse(obj, path) ==
    IF obj.k = "string" /\ Trim(obj.v) # <<>>
    THEN <<Entry("json", path, obj, path)>>
    ELSE IF obj.k = "array"
    THEN Concat([i \in 1..Len(obj.v) |-> traverse(obj.v[i], path \o <<Idx(i - 1)>>)])
    ELSE IF obj.k = "object"
    THEN Concat([i \in 1..Len(obj.v) |->
                    traverse(obj.v[i].val,
                             IF path # <<>>
                             THEN path \o <<Dot>> \o KeyTokens(obj.v[i].key)
                             ELSE KeyTokens(obj.v[i].key))])
    ELSE <<>>

parseGenericJSON(content) ==
    IF content.kind # "json" THEN <<>> ELSE traverse(content.value, <<>>)

(***************************************************************************)
(* parseKiriKiri                                                           *)
(***************************************************************************)
\* trimmed.replace(/\[.*?\]/g, "")
RECURSIVE StripTags(_, _)
StripTags(text, i) ==
    IF i > Len(text) THEN <<>>
    ELSE LET closing == {j \in (i + 1)..Len(text) :
                            /\ text[j] = "]"
                            /\ \A m \in (i + 1)..(j - 1) : text[m] \notin {CR, LF}}
         IN  IF text[i] = "[" /\ closing # {}
             THEN StripTags(text, Least(closing) + 1)
             ELSE <<text[i]>> \o StripTags(text, i + 1)

isCommand(trimmed) == At(trimmed, 1) = "@"

isTagOnly(trimmed) ==
    /\ At(trimmed, 1) = "["
    /\ At(trimmed, Len(trimmed)) = "]"
    /\ ~\E i \in 1..(Len(trimmed) - 1) : trimmed[i] = "]" /\ trimmed[i + 1] = "["
    /\ ~\E i \in 1..Len(StripTags(trimmed, 1)) :
            /\ ~IsSpace(StripTags(trimmed, 1)[i])
            /\ StripTags(trimmed, 1)[i] \notin {"[", "]"}

\* Variant: a line of tags only is taken for dialogue.
IsDialogue_TagsAsText(line) ==
    /\ Trim(line) # <<>>
    /\ At(Trim(line), 1) \notin {";", "*"}
    /\ ~(At(Trim(line), 1) = "/" /\ At(Trim(line), 2) = "/")
    /\ ~isCommand(Trim(line))

IsDialogue(line) ==
    /\ Trim(line) # <<>>
    /\ At(Trim(line), 1) \notin {";", "*"}
    /\ ~(At(Trim(line), 1) = "/" /\ At(Trim(line), 2) = "/")
    /\ ~isCommand(Trim(line))
    /\ ~isTagOnly(Trim(line))

parseKiriKiri(content) ==
    LET lines == SplitLines(content.value)
    IN  Concat([i \in 1..Len(lines) |->
                  IF IsDialogue(lines[i])
                  THEN <<Entry("ks", <<i - 1>>, Str(lines[i]),
                               <<Key("line-"), Digits(i - 1)>>)>>
                  ELSE <<>>])

(***************************************************************************)
(* parseRenPy                                                              *)
(***************************************************************************)
\* the length of the run of \s (of [\w\d_]) that starts at position i
SpaceRun(line, i) ==
    Least({j \in i..(Len(line) + 1) : ~IsSpace(At(line, j))}) - i

WordRun(line, i) ==
    Least({j \in i..(Len(line) + 1) : ~IsWordChar(At(line, j))}) - i

\* (?:[^"\\]|\\.)*" from position i: the position of the closing quote, 0
\* when there is none
RECURSIVE ClosingQuote(_, _)
ClosingQuote(line, i) ==
    IF i > Len(line) THEN 0
    ELSE IF line[i] = Quote THEN i
    ELSE IF line[i] = Backslash
    THEN IF i + 1 <= Len(line) /\ line[i + 1] \notin {CR, LF}
         THEN ClosingQuote(line, i + 2)
         ELSE 0
    ELSE ClosingQuote(line, i + 1)

\* line.match(/^(\s*(?:[\w\d_]+)?\s*)"((?:[^"\\]|\\.)*)"\s*$/)
dialogueRegex(line) ==
    LET s1 == SpaceRun(line, 1)
        w == WordRun(line, 1 + s1)
        s2 == SpaceRun(line, 1 + s1 + w)
        open == 1 + s1 + w + s2
        close == ClosingQuote(line, open + 1)
    IN  IF /\ At(line, open) = Quote
           /\ close > 0
           /\ \A m \in (close + 1)..Len(line) : IsSpace(line[m])
        THEN [ok |-> TRUE, p1 |-> SubSeq(line, 1, open - 1),
              text |-> SubSeq(line, open + 1, close - 1)]
        ELSE [ok |-> FALSE, p1 |-> <<>>, text |-> <<>>]

parseRenPy(content) ==
    LET lines == SplitLines(content.value)
    IN  Concat([i \in 1..Len(lines) |->
                  IF dialogueRegex(lines[i]).ok /\ Trim(dialogueRegex(lines[i]).text) # <<>>
                  THEN <<Entry("rpy", <<i - 1>>, Str(dialogueRegex(lines[i]).text),
                               <<Key("line-"), Digits(i - 1)>>)>>
                  ELSE <<>>])

(***************************************************************************)
(* parseSRT                                                                *)
(***************************************************************************)
parseSRT(content) ==
    LET blocks == SplitBlocks(content.value)
    IN  Concat([b \in 1..Len(blocks) |->
                  LET lines == SplitLines(blocks[b])
                      text == Join(SubSeq(lines, 3, Len(lines)), <<LF>>)
                  IN  IF Len(lines) >= 3 /\ Trim(text) # <<>>
                      THEN <<Entry("srt", <<b - 1>>, Str(text),
                                   <<Key("block-"), Digits(b - 1)>>)>>
                      ELSE <<>>])

(***************************************************************************)
(* parseCSV                                                                *)
(***************************************************************************)
\* line.split(',')
RECURSIVE SplitCommasFrom(_, _, _)
SplitCommasFrom(line, i, start) ==
    IF i > Len(line) THEN <<SubSeq(line, start, Len(line))>>
    ELSE IF line[i] = ","
    THEN <<SubSeq(line, start, i - 1)>> \o SplitCommasFrom(line, i + 1, i + 1)
    ELSE SplitCommasFrom(line, i + 1, start)

\* .replace(/^"|"$/g, '')
StripQuotes(text) ==
    LET rest == IF At(text, 1) = Quote THEN Tail(text) ELSE text
    IN  IF At(rest, Len(rest)) = Quote THEN SubSeq(rest, 1, Len(rest) - 1) ELSE rest

\* /^\d+$/.test(trimmed)
IsDigit(c) == c \in {"0", "1", "2", "3", "4", "5", "6", "7", "8", "9"}
AllDigits(text) == text # <<>> /\ \A i \in 1..Len(text) : IsDigit(text[i])

parseCSV(content) ==
    LET lines == SplitLines(content.value)
    IN  Concat([r \in 1..Len(lines) |->
           LET cols == SplitCommasFrom(lines[r], 1, 1)
           IN  Concat([c \in 1..Len(cols) |->
                  LET trimmed == StripQuotes(Trim(cols[c]))
                  IN  IF Len(trimmed) > 0 /\ ~AllDigits(trimmed)
                      THEN <<Entry("csv", <<r - 1, c - 1>>, Str(trimmed),
                                   <<Key("row-"), Digits(r - 1),
                                     Key("-col-"), Digits(c - 1)>>)>>
                      ELSE <<>>])])

(***************************************************************************)
(* applyTranslations                                                       *)
(***************************************************************************)
JSONFamily == {"rpgmaker", "unity", "generic"}
EngineTags == JSONFamily \cup {"renpy", "kirikiri", "subtitles"}

\* entry.path.replace(/\[(\d+)\]/g, '.$1')
BracketsToDots(path) ==
    Concat([i \in 1..Len(path) |->
              IF path[i].t = "idx"
              THEN <<Dot, [t |-> "num", v |-> path[i].v]>>
              ELSE <<path[i]>>])

\* .split('.')
RECURSIVE SplitDotsFrom(_, _, _)
SplitDotsFrom(path, i, part) ==
    IF i > Len(path) THEN <<part>>
    ELSE IF path[i].t = "dot" THEN <<part>> \o SplitDotsFrom(path, i + 1, "")
    ELSE SplitDotsFrom(path, i + 1, part \o TokenText(path[i]))

\* Variant: the bracketed indices are not rewritten before the split.
pathParts_NoRewrite(path) == SplitDotsFrom(path, 1, "")

pathParts(path) == SplitDotsFrom(BracketsToDots(path), 1, "")

\* the walk along pathParts and the assignment at its end (lines 462-474),
\* seen from `current`
RECURSIVE AssignAt(_, _, _)
AssignAt(current, parts, val) ==
    IF Len(parts) = 1
    THEN IF Truthy(current) THEN SetProp(current, parts[1], val) ELSE Done(current)
    ELSE IF Truthy(current) /\ Prop(current, parts[1]) # Undef
    THEN LET below == AssignAt(Prop(current, parts[1]), Tail(parts), val)
         IN  IF below.threw THEN Threw(current)
             ELSE Done(WithProp(current, parts[1], below.data))
    ELSE Done(current)

\* entries.forEach(entry => ...) of the JSON family, from entry i on
RECURSIVE AssignEntries(_, _, _)
AssignEntries(data, entries, i) ==
    IF i > Len(entries) THEN Done(data)
    ELSE IF entries[i].translated = <<>> THEN AssignEntries(data, entries, i + 1)
    ELSE LET r == AssignAt(data, pathParts(entries[i].path), Str(entries[i].translated))
         IN  IF r.threw THEN r ELSE AssignEntries(r.data, entries, i + 1)

\* entry.path.match(/line-(\d+)/) and parseInt(match[1]); -1 without a match
PathIndex(path, prefix) ==
    LET at == {j \in 1..(Len(path) - 1) : path[j] = Key(prefix) /\ path[j + 1].t = "num"}
    IN  IF at = {} THEN -1 ELSE ParseInt(path[Least(at) + 1].v)

\* lines[idx].replace(dialogueRegex, (m, p1) => `${p1}"${entry.translated}"`)
ReplaceDialogue(line, translated) ==
    IF dialogueRegex(line).ok
    THEN dialogueRegex(line).p1 \o <<Quote>> \o translated \o <<Quote>>
    ELSE line

\* blocks[idx] = lines.slice(0, 2).join("\n") + "\n" + entry.translated
ReplaceBlock(block, translated) ==
    IF Len(SplitLines(block)) >= 3
    THEN Join(SubSeq(SplitLines(block), 1, 2), <<LF>>) \o <<LF>> \o translated
    ELSE block

\* the body of entries.forEach in the line and block branches
ApplyEntry(engine, parts, entry) ==
    LET idx == PathIndex(entry.path, IF engine = "subtitles" THEN "block-" ELSE "line-")
    IN  IF entry.translated = <<>> \/ idx < 0 \/ idx >= Len(parts) THEN parts
        ELSE [parts EXCEPT ![idx + 1] =
                CASE engine = "renpy" -> ReplaceDialogue(parts[idx + 1], entry.translated)
                  [] engine = "kirikiri" -> entry.translated
                  [] OTHER -> ReplaceBlock(parts[idx + 1], entry.translated)]

RECURSIVE ApplyEntries(_, _, _, _)
ApplyEntries(engine, parts, entries, i) ==
    IF i > Len(entries) THEN parts
    ELSE ApplyEntries(engine, ApplyEntry(engine, parts, entries[i]), entries, i + 1)

\* JSON documents are given to the JSON family only (a document is kept as
\* its value and layout, not as lines)
applyTranslations(content, entries, engine) ==
    IF engine \in JSONFamily
    THEN IF content.kind # "json" THEN content
         ELSE IF AssignEntries(content.value, entries, 1).threw THEN content
         ELSE JSONFile("indent2", AssignEntries(content.value, entries, 1).data)
    ELSE IF engine \in {"renpy", "kirikiri"}
    THEN TextFile(Join(ApplyEntries(engine, SplitLines(content.value), entries, 1),
                       <<LF>>))
    ELSE IF engine = "subtitles"
    THEN TextFile(Join(ApplyEntries(engine, SplitBlocks(content.value), entries, 1),
                       <<LF, LF>>))
    ELSE content

(***************************************************************************)
(* App state                                                               *)
(***************************************************************************)
\* dependencies of the pre-fill effect: [project?.id, targetLang, useTM]
Deps == <<project.id, targetLang, useTM>>

\* React runs a pending effect before it handles the next event
EffectsFlushed == Deps = lastDeps

NoResult == "<none>"
NoOp == [name |-> "init", texts |-> <<>>, ok |-> TRUE, k |-> 0, X |-> "", T |-> ""]
\* The closure of a run of handleTranslateBatch (project, targetLang,
\* entriesToTranslate, updatedEntries, i), whether its provider call is in
\* flight, and the run's history: the ids and originals it targets, how many
\* results it has applied, and the last result returned for each original.
IdleRun == [project |-> NoProject, lang |-> "Indonesian", entriesToTranslate |-> <<>>,
            updatedEntries |-> <<>>, i |-> 0, inFlight |-> FALSE,
            targetIds |-> {}, targets |-> {}, total |-> 0, applied |-> 0,
            returned |-> [o \in Originals |-> NoResult]]

Init ==
    /\ project = NoProject
    /\ tm \in InitialTMs
    /\ targetLang = "Indonesian"
    /\ useTM = TRUE
    /\ isTranslating = FALSE
    /\ run = IdleRun
    /\ lastDeps = <<0, "Indonesian", TRUE>>
    /\ nextId = 1
    /\ ops = 0
    /\ op = NoOp
    /\ file = NoContent
    /\ fileEntries = <<>>
    /\ parsedBy = "none"
    /\ tag = "none"
    /\ translatedContent = NoContent
    /\ reapplied = NoContent
    /\ request = NoRequest
    /\ itemResults = <<>>
    /\ response = NoResponse
    /\ phase = "idle"

(***************************************************************************)
(* onDrop: parse every file, tag the project with the engine of the last   *)
(***************************************************************************)
onDrop(files) ==
    /\ EffectsFlushed
    /\ ops < MaxOps
    /\ LET allEntries == Concat([i \in 1..Len(files) |-> ParsedEntries(files[i])])
           detectedEngine == DetectedEngine(files[Len(files)])
       IN  /\ Len(allEntries) > 0
           /\ project' = [id |-> nextId, engine |-> detectedEngine,
                          entries |-> allEntries, files |-> files]
    /\ nextId' = nextId + 1
    /\ ops' = ops + 1
    /\ op' = [NoOp EXCEPT !.name = "import"]
    /\ UNCHANGED <<tm, targetLang, useTM, isTranslating, run, lastDeps, applyVars, endpointVars>>

(***************************************************************************)
(* useEffect(..., [project?.id, targetLang, useTM]): TM pre-fill           *)
(***************************************************************************)
\* Variant: the hit fills the text but does not record the pair's engine.
Prefilled_NoEngine(entry, t, lang) ==
    IF entry.translated = "" /\ IsMatch(findInTM(t, entry.original, lang))
    THEN [entry EXCEPT !.translated = findInTM(t, entry.original, lang).translated]
    ELSE entry

\* Variant: a hit also replaces a translation that is already there.
Prefilled_Overwrite(entry, t, lang) ==
    IF IsMatch(findInTM(t, entry.original, lang))
    THEN [entry EXCEPT !.translated = findInTM(t, entry.original, lang).translated,
                       !.tmEngineMatch = findInTM(t, entry.original, lang).engine]
    ELSE entry

Prefilled(entry, t, lang) ==
    IF entry.translated = "" /\ IsMatch(findInTM(t, entry.original, lang))
    THEN [entry EXCEPT !.translated = findInTM(t, entry.original, lang).translated,
                       !.tmEngineMatch = findInTM(t, entry.original, lang).engine]
    ELSE entry

TMPrefillEffect ==
    /\ ~EffectsFlushed
    /\ lastDeps' = Deps
    /\ IF project # NoProject /\ useTM
       THEN project' = [project EXCEPT !.entries =
                           [i \in 1..Len(project.entries) |->
                               Prefilled(project.entries[i], tm, targetLang)]]
       ELSE UNCHANGED project
    /\ op' = [NoOp EXCEPT !.name = "prefill"]
    /\ UNCHANGED <<tm, targetLang, useTM, isTranslating, run, nextId, ops, applyVars, endpointVars>>

(***************************************************************************)
(* handleTranslateBatch                                                    *)
(***************************************************************************)
\* what may be selected when a translate button is clicked: everything
\* ("Translate All"), some entries, or ids that match no entry
TargetChoices(entries) ==
    LET n == Len(entries)
    IN  IF n = 0 THEN {}
        ELSE {{entries[i].id : i \in 1..n},
              {entries[1].id},
              {<<"stale", 0>>}}

\* results.forEach runs in index order and every result overwrites, so what
\* an entry (or a memory key) ends with is what the last result that touches
\* it wrote.  LastIndex is the greatest of the touching indices, 0 when none.
LastIndex(touching) ==
    IF touching = {} THEN 0
    ELSE CHOOSE idx \in touching : \A other \in touching : other <= idx

\* Variant: result idx updates only the requested entry (matched by id).
ApplyResults_ById(entries, t, results, batch, lang, engine) ==
    LET n == Len(results)
        lastFor(ent) == LastIndex({idx \in 1..n : batch[idx].id = ent.id})
        lastKey(orig) == LastIndex({idx \in 1..n : batch[idx].original = orig})
    IN  [entries |->
            [e \in 1..Len(entries) |->
                IF lastFor(entries[e]) # 0
                THEN [entries[e] EXCEPT
                        !.translated = results[lastFor(entries[e])].translated,
                        !.tmEngineMatch = engine]
                ELSE entries[e]],
         tm |->
            [key \in DOMAIN t |->
                IF key[1] = lang /\ lastKey(key[2]) # 0
                THEN [translated |-> results[lastKey(key[2])].translated,
                      engine |-> engine]
                ELSE t[key]]]

\* Variant: the results are written to the entries of the store as it is
\* when they arrive, not to the run's own copy that holds the earlier batches.
ApplyResults_OnStore(entries, t, results, batch, lang, engine) ==
    LET n == Len(results)
        lastKey(orig) == LastIndex({idx \in 1..n : batch[idx].original = orig})
    IN  [entries |->
            [e \in 1..Len(project.entries) |->
                IF lastKey(project.entries[e].original) # 0
                THEN [project.entries[e] EXCEPT
                        !.translated = results[lastKey(project.entries[e].original)].translated,
                        !.tmEngineMatch = engine]
                ELSE project.entries[e]],
         tm |->
            [key \in DOMAIN t |->
                IF key[1] = lang /\ lastKey(key[2]) # 0
                THEN [translated |-> results[lastKey(key[2])].translated,
                      engine |-> engine]
                ELSE t[key]]]

\* Variant: a result that is the original itself is not saved to the memory.
ApplyResults_NoEchoInTM(entries, t, results, batch, lang, engine) ==
    LET n == Len(results)
        lastKey(orig) == LastIndex({idx \in 1..n : batch[idx].original = orig})
    IN  [entries |->
            [e \in 1..Len(entries) |->
                IF lastKey(entries[e].original) # 0
                THEN [entries[e] EXCEPT
                        !.translated = results[lastKey(entries[e].original)].translated,
                        !.tmEngineMatch = engine]
                ELSE entries[e]],
         tm |->
            [key \in DOMAIN t |->
                IF /\ key[1] = lang
                   /\ lastKey(key[2]) # 0
                   /\ results[lastKey(key[2])].translated # key[2]
                THEN [translated |-> results[lastKey(key[2])].translated,
                      engine |-> engine]
                ELSE t[key]]]

\* results.forEach: result idx is written to every entry whose original is
\* batch[idx].original, and upserted into the memory under (lang, original)
ApplyResults(entries, t, results, batch, lang, engine) ==
    LET n == Len(results)
        lastKey(orig) == LastIndex({idx \in 1..n : batch[idx].original = orig})
    IN  [entries |->
            [e \in 1..Len(entries) |->
                IF lastKey(entries[e].original) # 0
                THEN [entries[e] EXCEPT
                        !.translated = results[lastKey(entries[e].original)].translated,
                        !.tmEngineMatch = engine]
                ELSE entries[e]],
         tm |->
            [key \in DOMAIN t |->
                IF key[1] = lang /\ lastKey(key[2]) # 0
                THEN [translated |-> results[lastKey(key[2])].translated,
                      engine |-> engine]
                ELSE t[key]]]

\* Variant: the slice takes one entry more, which the next batch takes again.
BatchAt_Overlap(entriesToTranslate, i) ==
    SubSeq(entriesToTranslate, i + 1, Min(i + batchSize + 1, Len(entriesToTranslate)))

\* the slice of the loop's iteration at offset i
BatchAt(entriesToTranslate, i) ==
    SubSeq(entriesToTranslate, i + 1, Min(i + batchSize, Len(entriesToTranslate)))

\* the click: lines 233-252, up to the first await
handleTranslateBatch(targetIds) ==
    /\ EffectsFlushed
    /\ ops < MaxOps
    /\ project # NoProject
    /\ ~isTranslating
    /\ LET entriesToTranslate == SelectSeq(project.entries, LAMBDA e : e.id \in targetIds)
       IN  IF Len(entriesToTranslate) = 0
           THEN UNCHANGED <<isTranslating, run>>
           ELSE /\ isTranslating' = TRUE
                /\ run' = [project |-> [project EXCEPT !.entries = <<>>],
                           lang |-> targetLang,
                           entriesToTranslate |-> entriesToTranslate,
                           updatedEntries |-> project.entries, i |-> 0,
                           inFlight |-> TRUE,
                           targetIds |-> targetIds,
                           total |-> Len(entriesToTranslate), applied |-> 0,
                           targets |-> {entriesToTranslate[j].original :
                                            j \in 1..Len(entriesToTranslate)},
                           returned |-> [o \in Originals |-> NoResult]]
    /\ ops' = ops + 1
    /\ op' = [NoOp EXCEPT !.name = "start"]
    /\ UNCHANGED <<project, tm, targetLang, useTM, lastDeps, nextId, applyVars, endpointVars>>

\* last result of the call for each original text (history of the run)
Returned(returned, results) ==
    [o \in DOMAIN returned |->
        LET last == LastIndex({idx \in 1..Len(results) : results[idx].original = o})
        IN  IF last # 0 THEN results[last].translated ELSE returned[o]]

\* Variant: a failed call is not caught, the rejection ends the handler and
\* the run stays marked as translating.
BatchResults_ThrowOnFailure(resp) ==
    /\ EffectsFlushed
    /\ run.inFlight
    /\ \E batch \in {BatchAt(run.entriesToTranslate, run.i)} :
       \E texts \in {[j \in 1..Len(batch) |-> batch[j].original]} :
       \E results \in {translateGameText(texts, resp)} :
       \E applied \in {ApplyResults(run.updatedEntries, tm, results, batch,
                                    run.lang, run.project.engine)} :
       \E next \in {run.i + batchSize} :
       \E more \in {next < Len(run.entriesToTranslate)} :
           /\ resp \in Responses(Len(texts))
           /\ op' = [NoOp EXCEPT !.name = "batch", !.texts = texts,
                                 !.ok = resp.ok, !.k = resp.k]
           /\ IF resp.ok
              THEN /\ project' = [run.project EXCEPT !.entries = applied.entries]
                   /\ tm' = applied.tm
                   /\ isTranslating' = more
                   /\ run' = [run EXCEPT
                                !.updatedEntries = IF more THEN applied.entries ELSE <<>>,
                                !.entriesToTranslate = IF more THEN @ ELSE <<>>,
                                !.i = IF more THEN next ELSE 0,
                                !.inFlight = more,
                                !.applied = @ + Len(results),
                                !.returned = Returned(@, results)]
              ELSE /\ run' = [run EXCEPT !.inFlight = FALSE]
                   /\ UNCHANGED <<project, tm, isTranslating>>
    /\ UNCHANGED <<targetLang, useTM, lastDeps, nextId, ops, applyVars, endpointVars>>

\* the continuation of `await translateGameText(...)`: lines 252-273
\* (the locals of the loop body are bound by \E over a singleton, so that
\* each is computed once)
BatchResults(resp) ==
    /\ EffectsFlushed
    /\ run.inFlight
    /\ \E batch \in {BatchAt(run.entriesToTranslate, run.i)} :
       \E texts \in {[j \in 1..Len(batch) |-> batch[j].original]} :
       \E results \in {translateGameText(texts, resp)} :
       \E applied \in {ApplyResults(run.updatedEntries, tm, results, batch,
                                    run.lang, run.project.engine)} :
       \E next \in {run.i + batchSize} :
       \E more \in {next < Len(run.entriesToTranslate)} :
           /\ resp \in Responses(Len(texts))
           /\ op' = [NoOp EXCEPT !.name = "batch", !.texts = texts,
                                 !.ok = resp.ok, !.k = resp.k]
           /\ project' = [run.project EXCEPT !.entries = applied.entries]
           /\ tm' = applied.tm
           /\ isTranslating' = more
           /\ run' = [run EXCEPT !.updatedEntries = IF more THEN applied.entries ELSE <<>>,
                                 !.entriesToTranslate = IF more THEN @ ELSE <<>>,
                                 !.i = IF more THEN next ELSE 0,
                                 !.inFlight = more,
                                 !.applied = @ + Len(results),
                                 !.returned = Returned(@, results)]
    /\ UNCHANGED <<targetLang, useTM, lastDeps, nextId, ops, applyVars, endpointVars>>

(***************************************************************************)
(* textarea onChange: manual edit of a translated entry                    *)
(***************************************************************************)
\* Variant: the edit changes the edited entry only.
manualEdit_SingleEntry(idx, val) ==
    /\ EffectsFlushed
    /\ ops < MaxOps
    /\ project # NoProject
    /\ idx \in 1..Len(project.entries)
    /\ project.entries[idx].translated # ""
    /\ val # project.entries[idx].translated
    /\ LET entry == project.entries[idx]
       IN  /\ project' = [project EXCEPT !.entries[idx] =
                            [entry EXCEPT !.translated = val,
                                          !.tmEngineMatch = project.engine]]
           /\ tm' = saveToTM(tm, entry.original, val, targetLang, project.engine)
           /\ op' = [NoOp EXCEPT !.name = "edit", !.X = entry.original, !.T = val]
    /\ ops' = ops + 1
    /\ UNCHANGED <<targetLang, useTM, isTranslating, run, lastDeps, nextId,
                 applyVars, endpointVars>>

\* Variant: the edit is not written to the memory.
manualEdit_NoSave(idx, val) ==
    /\ EffectsFlushed
    /\ ops < MaxOps
    /\ project # NoProject
    /\ idx \in 1..Len(project.entries)
    /\ project.entries[idx].translated # ""
    /\ val # project.entries[idx].translated
    /\ LET entry == project.entries[idx]
       IN  /\ project' = [project EXCEPT !.entries =
                            [i \in 1..Len(project.entries) |->
                                IF project.entries[i].original = entry.original
                                THEN [project.entries[i] EXCEPT
                                        !.translated = val,
                                        !.tmEngineMatch = project.engine]
                                ELSE project.entries[i]]]
           /\ op' = [NoOp EXCEPT !.name = "edit", !.X = entry.original, !.T = val]
    /\ ops' = ops + 1
    /\ UNCHANGED <<tm, targetLang, useTM, isTranslating, run, lastDeps, nextId,
                 applyVars, endpointVars>>

manualEdit(idx, val) ==
    /\ EffectsFlushed
    /\ ops < MaxOps
    /\ project # NoProject
    /\ idx \in 1..Len(project.entries)
    \* the textarea is rendered only for an entry with a translation
    /\ project.entries[idx].translated # ""
    /\ val # project.entries[idx].translated
    /\ LET entry == project.entries[idx]
       IN  /\ project' = [project EXCEPT !.entries =
                            [i \in 1..Len(project.entries) |->
                                IF project.entries[i].original = entry.original
                                THEN [project.entries[i] EXCEPT
                                        !.translated = val,
                                        !.tmEngineMatch = project.engine]
                                ELSE project.entries[i]]]
           /\ tm' = saveToTM(tm, entry.original, val, targetLang, project.engine)
           /\ op' = [NoOp EXCEPT !.name = "edit", !.X = entry.original, !.T = val]
    /\ ops' = ops + 1
    /\ UNCHANGED <<targetLang, useTM, isTranslating, run, lastDeps, nextId,
                 applyVars, endpointVars>>

(***************************************************************************)
(* handleBulkAction, reset, settings                                       *)
(***************************************************************************)
handleBulkAction(action) ==
    /\ EffectsFlushed
    /\ ops < MaxOps
    /\ project # NoProject
    /\ project' = [project EXCEPT !.entries =
                     [i \in 1..Len(project.entries) |->
                        [project.entries[i] EXCEPT
                           !.translated = IF action = "copy"
                                          THEN project.entries[i].original ELSE "",
                           !.tmEngineMatch = IF action = "copy"
                                             THEN project.engine ELSE Undefined]]]
    /\ ops' = ops + 1
    /\ op' = [NoOp EXCEPT !.name = action]
    /\ UNCHANGED <<tm, targetLang, useTM, isTranslating, run, lastDeps, nextId,
                 applyVars, endpointVars>>

resetProject ==
    /\ EffectsFlushed
    /\ ops < MaxOps
    /\ project # NoProject
    /\ project' = NoProject
    /\ ops' = ops + 1
    /\ op' = [NoOp EXCEPT !.name = "reset"]
    /\ UNCHANGED <<tm, targetLang, useTM, isTranslating, run, lastDeps, nextId,
                 applyVars, endpointVars>>

setTargetLang(lang) ==
    /\ EffectsFlushed
    /\ ops < MaxOps
    /\ lang # targetLang
    /\ targetLang' = lang
    /\ ops' = ops + 1
    /\ op' = [NoOp EXCEPT !.name = "lang"]
    /\ UNCHANGED <<project, tm, useTM, isTranslating, run, lastDeps, nextId,
                 applyVars, endpointVars>>

setUseTM(checked) ==
    /\ EffectsFlushed
    /\ ops < MaxOps
    /\ checked # useTM
    /\ useTM' = checked
    /\ ops' = ops + 1
    /\ op' = [NoOp EXCEPT !.name = "usetm"]
    /\ UNCHANGED <<project, tm, targetLang, isTranslating, run, lastDeps, nextId,
                 applyVars, endpointVars>>

Next ==
    \/ \E files \in FileLists : onDrop(files)
    \/ TMPrefillEffect
    \/ \E ids \in TargetChoices(project.entries) : handleTranslateBatch(ids)
    \/ \E resp \in Responses(Len(BatchAt(run.entriesToTranslate, run.i))) :
          BatchResults(resp)
    \/ \E idx \in 1..Len(project.entries), val \in EditVals : manualEdit(idx, val)
    \/ \E action \in {"copy", "clear"} : handleBulkAction(action)
    \/ resetProject
    \/ \E lang \in Langs : setTargetLang(lang)
    \/ \E checked \in BOOLEAN : setUseTM(checked)

Spec == Init /\ [][Next]_vars

\* React runs every pending effect, and (the premise of the termination
\* claim) every provider call eventually returns or throws.
BatchStep == \E resp \in Responses(Len(BatchAt(run.entriesToTranslate, run.i))) :
                BatchResults(resp)

SpecLive == Spec /\ WF_vars(TMPrefillEffect) /\ WF_vars(BatchStep)

\* the provenance badge of an entry row: shown on the textarea, which exists
\* only for a translated entry
Badge(entry, proj) ==
    IF entry.translated = "" \/ entry.tmEngineMatch = Undefined THEN "none"
    ELSE IF entry.tmEngineMatch = proj.engine THEN "same"
    ELSE "other"

(***************************************************************************)
(* Properties of the batch translator and the translation memory           *)
(***************************************************************************)
EntryIdx == 1..Len(project.entries)

\* C1: when a run completes, every entry of the project whose original is the
\* original of a targeted entry (whatever its file, targeted or not) holds
\* the result the provider call last returned for that original.
C1_DedupPropagation ==
    [][(isTranslating /\ ~isTranslating') =>
         \A i \in 1..Len(project'.entries) :
            project'.entries[i].original \in run'.targets =>
               project'.entries[i].translated
                  = run'.returned[project'.entries[i].original]]_vars

\* a finished run that targeted one entry of the map file has translated the
\* untargeted entry of the other file that shares its original
C1_Witness ==
    /\ ~isTranslating
    /\ op.name = "batch"
    /\ Cardinality(run.targetIds) = 1
    /\ run.returned["Attack"] = "Serang"
    /\ \E i \in EntryIdx :
          /\ project.entries[i].id \notin run.targetIds
          /\ project.entries[i].id[1] = "scene.ks"
          /\ project.entries[i].original = "Attack"
          /\ project.entries[i].translated = "Serang"

\* C2: in every reachable state, two entries of the project with equal
\* original text have equal translated text.
C2_SameOriginalSameTranslated ==
    \A i, j \in EntryIdx :
        project.entries[i].original = project.entries[j].original
            => project.entries[i].translated = project.entries[j].translated

\* a manual edit made while a run is in flight has set two entries at once
C2_Witness ==
    /\ isTranslating
    /\ op.name = "edit"
    /\ \E i, j \in EntryIdx :
          /\ i # j
          /\ project.entries[i].original = project.entries[j].original
          /\ project.entries[i].translated = "Manual"
          /\ project.entries[j].translated = "Manual"

\* the texts of the last batch whose result was missing or failed
MissingOriginals ==
    {op.texts[j] : j \in {jj \in 1..Len(op.texts) : ~op.ok \/ jj > op.k}}

\* C3 as stated: after a batch whose call failed or came back short, every
\* affected entry holds its own original, and that value is never empty.
C3_Original ==
    op.name = "batch" =>
        \A i \in EntryIdx :
            project.entries[i].original \in MissingOriginals =>
                /\ project.entries[i].translated = project.entries[i].original
                /\ project.entries[i].translated # ""

\* C3 (amended): after a batch whose call failed or came back short, every
\* affected entry holds its own original (empty only if that original is
\* empty), and the run goes on exactly while results remain to be applied.
C3_FailSoft ==
    op.name = "batch" =>
        /\ \A i \in EntryIdx :
              project.entries[i].original \in MissingOriginals =>
                  /\ project.entries[i].translated = project.entries[i].original
                  /\ (project.entries[i].translated = ""
                        => project.entries[i].original = "")
        /\ isTranslating = (run.applied < run.total)
        /\ run.inFlight = isTranslating

\* a failed first batch of a two-batch run: the entries echo, the run goes on
C3_Witness ==
    /\ op.name = "batch"
    /\ ~op.ok
    /\ isTranslating
    /\ \E i \in EntryIdx :
          /\ project.entries[i].original = "Guard"
          /\ project.entries[i].translated = "Guard"

\* C4: every run that is Running eventually is Done, with every targeted
\* entry's result applied; no outcome of a call leaves it Running.
C4_RunReachesDone ==
    /\ isTranslating ~> (~isTranslating /\ run.applied = run.total)
    /\ [](~isTranslating => run.applied = run.total)

\* a two-batch run is Done after its last call failed
C4_Witness ==
    /\ ~isTranslating
    /\ op.name = "batch"
    /\ ~op.ok
    /\ run.total > batchSize
    /\ run.applied = run.total

\* C9 as stated: whenever the pre-fill effect runs on a loaded project, an
\* untranslated entry with a hit (X, T, L, G) gets T, and its badge is "same
\* engine" exactly when the project's engine is G.
C9_Original ==
    [][(op'.name = "prefill" /\ project # NoProject) =>
         \A i \in EntryIdx :
            LET e == project.entries[i]
                m == findInTM(tm, e.original, targetLang)
            IN  (e.translated = "" /\ IsMatch(m)) =>
                   /\ project'.entries[i].translated = m.translated
                   /\ (Badge(project'.entries[i], project') = "same")
                         = (project'.engine = m.engine)]_vars

\* C9 (amended): the same with Auto-TM on, the badge being shown only for a
\* non-empty T.
C9_TMPrefill ==
    [][(op'.name = "prefill" /\ project # NoProject /\ useTM) =>
         \A i \in EntryIdx :
            LET e == project.entries[i]
                m == findInTM(tm, e.original, targetLang)
            IN  (e.translated = "" /\ IsMatch(m)) =>
                   /\ project'.entries[i].translated = m.translated
                   /\ (m.translated # "" =>
                         (Badge(project'.entries[i], project') = "same")
                            = (project'.engine = m.engine))]_vars

\* a pair stored by an rpgmaker project has pre-filled a kirikiri project
C9_Witness ==
    /\ op.name = "prefill"
    /\ project.engine = "kirikiri"
    /\ \E i \in EntryIdx :
          /\ project.entries[i].original = "Attack"
          /\ project.entries[i].translated = "Serang"
          /\ Badge(project.entries[i], project) = "other"

\* C10 as stated: after a batch result, a manual edit or a bulk copy has set
\* translated = T on the entries with original X, the memory returns T with
\* the project's engine for (X, current target language).
C10_Original ==
    /\ op.name = "edit" =>
          findInTM(tm, op.X, targetLang)
             = [translated |-> op.T, engine |-> project.engine]
    /\ op.name = "batch" =>
          \A i \in EntryIdx :
             (\E j \in 1..Len(op.texts) : op.texts[j] = project.entries[i].original) =>
                findInTM(tm, project.entries[i].original, targetLang)
                   = [translated |-> project.entries[i].translated,
                      engine |-> project.engine]
    /\ op.name = "copy" =>
          \A i \in EntryIdx :
             findInTM(tm, project.entries[i].original, targetLang)
                = [translated |-> project.entries[i].translated,
                   engine |-> project.engine]

\* C10 (amended): a manual edit upserts (X, current target language), a batch
\* result upserts (X, the target language the run was started with), each
\* with the translation just set and the project's engine.
C10_Upsert ==
    /\ op.name = "edit" =>
          /\ findInTM(tm, op.X, targetLang)
                = [translated |-> op.T, engine |-> project.engine]
          /\ \A i \in EntryIdx :
                project.entries[i].original = op.X => project.entries[i].translated = op.T
    /\ op.name = "batch" =>
          \A i \in EntryIdx :
             (\E j \in 1..Len(op.texts) : op.texts[j] = project.entries[i].original) =>
                findInTM(tm, project.entries[i].original, run.lang)
                   = [translated |-> project.entries[i].translated,
                      engine |-> project.engine]

\* a batch result was stored under the run's language after the user had
\* switched the target language
C10_Witness ==
    /\ op.name = "batch"
    /\ targetLang # run.lang
    /\ findInTM(tm, "Attack", run.lang) = [translated |-> "Serang", engine |-> "kirikiri"]
    /\ \E i \in EntryIdx : project.entries[i].translated = "Serang"

\* C16 (as stated): within one run each distinct original is sent to the
\* provider at most once: when the run is done, the number of strings sent
\* over all its batches (one result is applied per string sent) is the number
\* of distinct originals of the targeted entries.
C16_Original ==
    (~isTranslating /\ op.name = "batch") => run.applied = Cardinality(run.targets)

\* the operations that work on a loaded project
ProjectOps == {"prefill", "batch", "edit", "copy", "clear"}

\* C17 (as stated): once a project is in the store, a TM pre-fill, a batch
\* result, a manual edit, a bulk copy or a bulk clear leaves the project's id,
\* its files snapshot and the number, order, ids and originals of its entries
\* as they are (the path of an entry is part of what its id stands for).
C17_Original ==
    [][(op'.name \in ProjectOps /\ project # NoProject) =>
         /\ project'.id = project.id
         /\ project'.files = project.files
         /\ Len(project'.entries) = Len(project.entries)
         /\ \A i \in 1..Len(project.entries) :
               /\ project'.entries[i].id = project.entries[i].id
               /\ project'.entries[i].original = project.entries[i].original]_vars

C20_Batches ==
    /\ [][(op'.name = "start" /\ isTranslating') =>
             /\ run'.entriesToTranslate
                   = SelectSeq(project.entries, LAMBDA e : e.id \in run'.targetIds)
             /\ run'.total = Len(run'.entriesToTranslate)
             /\ run'.applied = 0]_vars
    /\ [][\A resp \in Responses(Len(BatchAt(run.entriesToTranslate, run.i))) :
             BatchResults(resp) =>
                /\ Len(op'.texts) >= 1
                /\ Len(op'.texts) = Min(batchSize, run.total - run.applied)
                /\ \A j \in 1..Len(op'.texts) :
                      op'.texts[j] = run.entriesToTranslate[run.applied + j].original
                /\ run'.applied = run.applied + Len(op'.texts)
                /\ isTranslating' = (run'.applied < run.total)
                /\ \A e \in 1..Len(project'.entries), j \in 1..Len(op'.texts) :
                      (/\ project'.entries[e].original = op'.texts[j]
                       /\ \A later \in (j + 1)..Len(op'.texts) :
                              op'.texts[later] # op'.texts[j])
                      => project'.entries[e].translated
                            = translateGameText(op'.texts, resp)[j].translated]_vars

\* the last batch of a run over more than 10 entries held the remainder, and
\* the provider answered every string of it
C20_Witness ==
    /\ ~isTranslating
    /\ op.name = "batch"
    /\ op.ok
    /\ run.total > batchSize
    /\ Len(op.texts) = run.total - batchSize
    /\ op.k = Len(op.texts)
    /\ run.applied = run.total

\* C21 (as stated): a manual edit made while a run is in flight sets the
\* entries with original X to v; a batch result that does not answer X and is
\* applied after the edit leaves v on those entries.
C21_Original ==
    [][(/\ op.name = "edit"
        /\ isTranslating
        /\ op'.name = "batch"
        /\ \A j \in 1..Len(op'.texts) : op'.texts[j] # op.X) =>
         \A i \in 1..Len(project'.entries) :
            project'.entries[i].original = op.X
               => project'.entries[i].translated = op.T]_vars

\* C28 (as stated): the results of a run started on project P are applied
\* to P only: when the store no longer holds P (it was reset, or replaced by
\* a new import) the completion of a batch of the run leaves the store as it
\* is: P is not restored and the new project is not overwritten.
C28_Original ==
    [][(op'.name = "batch" /\ project.id # run.project.id) => project' = project]_vars

\* C29: a TM pre-fill changes only the entries whose translated is empty and
\* for which the memory has a pair for (original, current target language),
\* and gives them the pair's text; an entry with a translation is left as it
\* is, whatever language it was made for; with Auto-TM off, or with no
\* project, the store does not change.
C29_PrefillFrame ==
    [][op'.name = "prefill" =>
         /\ (project = NoProject \/ ~useTM) => project' = project
         /\ project # NoProject =>
               /\ project'.id = project.id
               /\ Len(project'.entries) = Len(project.entries)
               /\ \A i \in 1..Len(project.entries) :
                     IF /\ useTM
                        /\ project.entries[i].translated = ""
                        /\ IsMatch(findInTM(tm, project.entries[i].original, targetLang))
                     THEN project'.entries[i].translated =
                              findInTM(tm, project.entries[i].original,
                                       targetLang).translated
                     ELSE project'.entries[i] = project.entries[i]]_vars

\* the pre-fill has run after a change of the target language, and an entry
\* keeps its translation although the memory has another text for its
\* original in the language now selected
C29_Witness ==
    /\ op.name = "prefill"
    /\ useTM
    /\ project # NoProject
    /\ targetLang = "English"
    /\ \E i \in 1..Len(project.entries) :
          /\ project.entries[i].translated # ""
          /\ IsMatch(findInTM(tm, project.entries[i].original, targetLang))
          /\ findInTM(tm, project.entries[i].original, targetLang).translated
                # project.entries[i].translated

\* C30: the fallback of a failed provider call is saved like a translation:
\* right after a batch whose call failed, the memory maps (the run's target
\* language, X) to X itself, with the run's engine, for every original X of
\* the batch, whatever was stored under that key; and a pre-fill gives an
\* empty entry whose original has such a pair the untranslated text.
C30_FallbackInTM ==
    /\ [](( op.name = "batch" /\ ~op.ok) =>
            \A j \in 1..Len(op.texts) :
                findInTM(tm, op.texts[j], run.lang) =
                    [translated |-> op.texts[j], engine |-> run.project.engine])
    /\ [][(op'.name = "prefill" /\ project # NoProject /\ useTM) =>
            \A i \in 1..Len(project.entries) :
                (/\ project.entries[i].translated = ""
                 /\ IsMatch(findInTM(tm, project.entries[i].original, targetLang))
                 /\ findInTM(tm, project.entries[i].original, targetLang).translated
                       = project.entries[i].original)
                => project'.entries[i].translated = project.entries[i].original]_vars

\* after a failed batch the file was imported again, and the pre-fill gave
\* the Attack entries of the new project the text "Attack" from the memory
C30_Witness ==
    /\ op.name = "prefill"
    /\ project # NoProject
    /\ project.id = 2
    /\ findInTM(tm, "Attack", targetLang).translated = "Attack"
    /\ \E i \in 1..Len(project.entries) :
          /\ project.entries[i].original = "Attack"
          /\ project.entries[i].translated = "Attack"

\* a step of the program after which the call in flight is the run's last:
\* what a stop request would be
StopRequested ==
    /\ Next
    /\ run'.inFlight
    /\ run'.i = run.i
    /\ ~(run'.i + batchSize < Len(run'.entriesToTranslate))

\* C22 (as stated): a running run can be stopped: while a call is in flight
\* and entries remain for a further batch, the user can request a stop, after
\* which the batch in flight completes and no further batch is dispatched.
C22_Original ==
    (/\ isTranslating
     /\ run.inFlight
     /\ run.i + batchSize < Len(run.entriesToTranslate)
     /\ EffectsFlushed
     /\ ops < MaxOps) => ENABLED StopRequested

(***************************************************************************)
(* Part II as a state machine: a file is parsed, some of its entries get   *)
(* a translation, and applyTranslations is run on the file and then again  *)
(* on its own output (export, and re-export of an exported file).          *)
(***************************************************************************)
ShowText(text) ==
    Obj(<<Member("code", Num(401)), Member("indent", Num(0)),
          Member("parameters", Arr(<<Str(text)>>))>>)

ShowChoices ==
    Obj(<<Member("code", Num(102)), Member("indent", Num(0)),
          Member("parameters", Arr(<<Arr(<<Str(<<"Yes">>), Str(<<"No">>)>>), Num(0)>>))>>)

\* MapXXX.json
MapData ==
    Obj(<<Member("events",
            Arr(<<Null,
                  Obj(<<Member("id", Num(1)),
                        Member("pages",
                          Arr(<<Obj(<<Member("list",
                                  Arr(<<ShowText(<<"Hello">>), ShowChoices,
                                        ShowText(<<>>)>>))>>)>>))>>)>>)),
          Member("width", Num(17))>>)

\* Items.json
ItemsData ==
    Arr(<<Null, Obj(<<Member("id", Num(1)), Member("name", Str(<<"Potion">>)),
                      Member("description", Str(<<"Heals">>))>>)>>)

\* Actors.json
ActorsData ==
    Arr(<<Null, Obj(<<Member("id", Num(1)), Member("name", Str(<<"Hero">>)),
                      Member("nickname", Str(<<>>)),
                      Member("profile", Str(<<"Brave">>))>>)>>)

\* CommonEvents.json
CommonEventsData ==
    Arr(<<Null, Obj(<<Member("id", Num(1)),
                      Member("list", Arr(<<ShowText(<<"Hi">>)>>)),
                      Member("name", Str(<<>>))>>)>>)

\* Troops.json
TroopsData ==
    Arr(<<Null, Obj(<<Member("id", Num(1)), Member("members", Arr(<<>>)),
                      Member("name", Str(<<"Bats">>)),
                      Member("pages",
                        Arr(<<Obj(<<Member("list", Arr(<<ShowText(<<"Grr">>)>>))>>)>>))>>)>>)

\* System.json
SystemData ==
    Obj(<<Member("gameTitle", Str(<<"Quest">>)),
          Member("terms", Obj(<<Member("basic", Arr(<<Str(<<"Level">>)>>)),
                                Member("messages",
                                  Obj(<<Member("ok", Str(<<"OK">>))>>))>>)),
          Member("elements", Arr(<<Str(<<>>), Str(<<"Fire">>)>>))>>)

\* a Unity/generic localisation table, and one whose top level is an array
GenericData ==
    Obj(<<Member("title", Str(<<"Hi">>)), Member("a.b", Str(<<"Yo">>)),
          Member("count", Num(1))>>)

GenericList == Arr(<<Str(<<"Hi">>), Obj(<<Member("text", Str(<<"Yo">>))>>)>>)

\* localisation tables with a dotted key "a.b" next to a key "a" whose value is
\* a text, or a table without a member "b"
DottedText == Obj(<<Member("a.b", Str(<<"Yo">>)), Member("a", Str(<<"Hi">>))>>)

DottedTable ==
    Obj(<<Member("a.b", Str(<<"Yo">>)),
          Member("a", Obj(<<Member("c", Str(<<"Hi">>))>>))>>)

\* the files of the catalogue
Files ==
    <<JSONFile("compact", MapData), JSONFile("indent2", MapData),
      JSONFile("compact", ItemsData), JSONFile("indent2", ActorsData),
      JSONFile("indent2", CommonEventsData), JSONFile("indent2", TroopsData),
      JSONFile("indent2", SystemData), JSONFile("compact", GenericData),
      JSONFile("indent2", GenericList),
      JSONFile("indent2", DottedText), JSONFile("indent2", DottedTable),
      \* scene.ks, with CRLF line ends
      TextFile(<<"[", "r", "]", CR, LF, "Hello", CR, LF, "@", "wait">>),
      \* tags.ks: a line with inline tags, a tag, a comment, a label, a command
      TextFile(<<"Hello", " ", "[", "ruby", "]", "w", "[", "/", "ruby", "]", "!", LF,
                 "[", "wait", "]", LF, ";", "note", LF, "*", "start", LF,
                 "@", "jump">>),
      \* script.rpy
      TextFile(<<"e", " ", Quote, "Hi", Quote, LF, Quote, "Yo", Quote>>),
      \* movie.srt, with LF and with CRLF line ends
      TextFile(<<"1", LF, "00:01", LF, "Hello", LF, LF, "2", LF, "00:02", LF, "Bye">>),
      TextFile(<<"1", CR, LF, "00:01", CR, LF, "Hello">>)>>

\* what a translation may be: a word, or two paragraphs
Translations == {<<"Bonjour">>, <<"Un", LF, LF, "Deux">>}

Parsers == {"parseRPGMaker", "parseGenericJSON", "parseKiriKiri", "parseRenPy", "parseSRT"}

ParserResult(p, content) ==
    CASE p = "parseRPGMaker" -> parseRPGMaker(content)
      [] p = "parseGenericJSON" -> parseGenericJSON(content)
      [] p = "parseKiriKiri" -> parseKiriKiri(content)
      [] p = "parseRenPy" -> parseRenPy(content)
      [] OTHER -> parseSRT(content)

InitApply ==
    /\ project = NoProject
    /\ tm = EmptyTM
    /\ targetLang = "Indonesian"
    /\ useTM = TRUE
    /\ isTranslating = FALSE
    /\ run = IdleRun
    /\ lastDeps = <<0, "Indonesian", TRUE>>
    /\ nextId = 1
    /\ ops = 0
    /\ op = NoOp
    /\ \E f \in 1..Len(Files) : file = Files[f]
    /\ fileEntries = <<>>
    /\ parsedBy = "none"
    /\ tag = "none"
    /\ translatedContent = NoContent
    /\ reapplied = NoContent
    /\ request = NoRequest
    /\ itemResults = <<>>
    /\ response = NoResponse
    /\ phase = "loaded"

\* a parser reads the file
Parse(p) ==
    /\ phase = "loaded"
    /\ file.kind = "text" \/ p \in {"parseRPGMaker", "parseGenericJSON"}
    /\ fileEntries' = ParserResult(p, file)
    /\ parsedBy' = p
    /\ phase' = "parsed"
    /\ UNCHANGED <<appVars, file, tag, translatedContent, reapplied, endpointVars>>

\* an entry gets a translation
SetTranslated(i, text) ==
    /\ phase = "parsed"
    /\ i \in 1..Len(fileEntries)
    /\ fileEntries[i].translated # text
    /\ \/ fileEntries[i].translated # <<>>
       \/ Cardinality({j \in 1..Len(fileEntries) : fileEntries[j].translated # <<>>})
             < MaxTranslated
    /\ fileEntries' = [fileEntries EXCEPT ![i].translated = text]
    /\ UNCHANGED <<appVars, file, parsedBy, tag, translatedContent, reapplied, phase, endpointVars>>

\* applyTranslations(file.content, fileEntries, project.engine)
Apply(engine) ==
    /\ phase = "parsed"
    /\ engine \in JSONFamily \/ file.kind = "text"
    /\ tag' = engine
    /\ translatedContent' = applyTranslations(file, fileEntries, engine)
    /\ phase' = "applied"
    /\ UNCHANGED <<appVars, file, fileEntries, parsedBy, reapplied, endpointVars>>

\* applyTranslations on its own output, with the same entries
Reapply ==
    /\ phase = "applied"
    /\ reapplied' = applyTranslations(translatedContent, fileEntries, tag)
    /\ phase' = "reapplied"
    /\ UNCHANGED <<appVars, file, fileEntries, parsedBy, tag, translatedContent, endpointVars>>

NextApply ==
    \/ \E p \in Parsers : Parse(p)
    \/ \E i \in 1..Len(fileEntries), text \in Translations : SetTranslated(i, text)
    \/ \E engine \in EngineTags : Apply(engine)
    \/ Reapply

SpecApply == InitApply /\ [][NextApply]_vars

(***************************************************************************)
(* Properties of the parser/applier service                                *)
(***************************************************************************)
Applied == phase \in {"applied", "reapplied"}

Translated == {i \in 1..Len(fileEntries) : fileEntries[i].translated # <<>>}

\* A bracket/dot address read as the spec reads it: a name selects the member
\* of an object, [n] the n-th element of an array.
AtKey(name) == [step |-> "key", name |-> name, index |-> 0]
AtIndex(n) == [step |-> "index", name |-> "", index |-> n]

AddressOf(path) ==
    Concat([i \in 1..Len(path) |->
              CASE path[i].t = "idx" -> <<AtIndex(ParseInt(path[i].v))>>
                [] path[i].t = "dot" -> <<>>
                [] OTHER -> <<AtKey(path[i].v)>>])

Addressable(x, step) ==
    \/ step.step = "key" /\ x.k = "object" /\ \E i \in 1..Len(x.v) : x.v[i].key = step.name
    \/ step.step = "index" /\ x.k = "array" /\ step.index < Len(x.v)

Below(x, step) ==
    IF step.step = "key"
    THEN x.v[Least({i \in 1..Len(x.v) : x.v[i].key = step.name})].val
    ELSE x.v[step.index + 1]

RECURSIVE ValueAt(_, _)
ValueAt(x, addr) ==
    IF Len(addr) = 0 THEN x
    ELSE IF Addressable(x, addr[1]) THEN ValueAt(Below(x, addr[1]), Tail(addr))
    ELSE Undef

\* x with the value at addr replaced by new, and nothing else changed
RECURSIVE WithValueAt(_, _, _)
WithValueAt(x, addr, new) ==
    IF Len(addr) = 0 THEN new
    ELSE IF ~Addressable(x, addr[1]) THEN x
    ELSE IF addr[1].step = "key"
    THEN Obj([i \in 1..Len(x.v) |->
                IF x.v[i].key = addr[1].name
                THEN Member(x.v[i].key, WithValueAt(x.v[i].val, Tail(addr), new))
                ELSE x.v[i]])
    ELSE Arr([i \in 1..Len(x.v) |->
                IF i = addr[1].index + 1
                THEN WithValueAt(x.v[i], Tail(addr), new)
                ELSE x.v[i]])

\* C5 (as stated): with every entry's translated empty, applyTranslations
\* returns the content character for character, whatever the engine tag:
\* same line terminators, same JSON layout.
C5_Original ==
    (Applied /\ Translated = {}) => translatedContent = file

\* C6 (as stated): for the JSON-family and subtitle engines, applying again to
\* the output with the same entries returns that output, whatever the
\* translated texts are (a text with a blank line included).
C6_Original ==
    (phase = "reapplied" /\ tag \in JSONFamily \cup {"subtitles"})
        => reapplied = translatedContent

\* the address of the command at list index c of page p of map event e
CommandAddress(e, p, c) ==
    <<AtKey("events"), AtIndex(e), AtKey("pages"), AtIndex(p), AtKey("list"), AtIndex(c)>>

\* the Show Text commands of a map: code 401 and parameters [s]
IsShowText(cmd) ==
    /\ cmd.k = "object"
    /\ Prop(cmd, "code") = Num(401)
    /\ Prop(cmd, "parameters").k = "array"
    /\ Len(Prop(cmd, "parameters").v) = 1
    /\ Prop(cmd, "parameters").v[1].k = "string"

EntriesAt(addr) == {i \in 1..Len(fileEntries) : AddressOf(fileEntries[i].path) = addr}

\* C7: for a map file with a code-401 command whose parameters are [s],
\* parseRPGMaker yields exactly one entry for that command, with original s;
\* once that entry alone is translated to t, applyTranslations yields the
\* map's JSON value with that command's parameters[0] replaced by t and
\* nothing else changed.
C7_MapRoundTrip ==
    \A e \in 0..MaxIndex, p \in 0..MaxIndex, c \in 0..MaxIndex :
        LET param == CommandAddress(e, p, c) \o <<AtKey("parameters"), AtIndex(0)>>
        IN  (/\ phase # "loaded"
             /\ parsedBy = "parseRPGMaker"
             /\ file.kind = "json"
             /\ IsShowText(ValueAt(file.value, CommandAddress(e, p, c))))
            => /\ Cardinality(EntriesAt(param)) = 1
               /\ \A i \in EntriesAt(param) :
                    /\ fileEntries[i].id = [kind |-> "map", of |-> <<e, p, c>>]
                    /\ fileEntries[i].original = ValueAt(file.value, param)
                    /\ (Applied /\ tag \in JSONFamily /\ Translated = {i})
                       => /\ translatedContent.kind = "json"
                          /\ translatedContent.value =
                                WithValueAt(file.value, param,
                                            Str(fileEntries[i].translated))
                          /\ ValueAt(translatedContent.value, param)
                                = Str(fileEntries[i].translated)

C7_Witness ==
    /\ Applied
    /\ parsedBy = "parseRPGMaker"
    /\ tag = "rpgmaker"
    /\ file = JSONFile("compact", MapData)
    /\ \E i \in Translated :
          /\ Translated = {i}
          /\ fileEntries[i].original = Str(<<"Hello">>)
          /\ fileEntries[i].translated = <<"Bonjour">>
    /\ translatedContent.value # file.value

\* C8 (as stated): for every entry that parseRPGMaker or parseGenericJSON
\* extracts from a file whose top-level JSON value is an array, once that entry
\* alone is translated to t, the output of applyTranslations holds t at the
\* field the entry's path addresses.
C8_Original ==
    \A i \in 1..Len(fileEntries) :
        (/\ Applied
         /\ parsedBy \in {"parseRPGMaker", "parseGenericJSON"}
         /\ tag \in JSONFamily
         /\ file.kind = "json"
         /\ file.value.k = "array"
         /\ Translated = {i})
        => /\ translatedContent.kind = "json"
           /\ ValueAt(translatedContent.value, AddressOf(fileEntries[i].path))
                 = Str(fileEntries[i].translated)

Resolves(path) == ValueAt(file.value, AddressOf(path)) # Undef

\* entries.filter((e, j) => j !== i)
Without(entries, i) ==
    [j \in 1..(Len(entries) - 1) |-> IF j < i THEN entries[j] ELSE entries[j + 1]]

\* C11 (as stated): for JSON-family content, a translated entry whose path does
\* not resolve in the parsed content is skipped: the output is the output
\* produced without that entry (so no exception escapes and the translations
\* of the other entries are applied).
C11_Original ==
    \A i \in Translated :
        (/\ Applied
         /\ tag \in JSONFamily
         /\ file.kind = "json"
         /\ ~Resolves(fileEntries[i].path))
        => translatedContent = applyTranslations(file, Without(fileEntries, i), tag)

\* C23 (as stated): parseRPGMaker extracts with the first matching shape
\* only: for a file whose value is an array with element 0 null, no field of
\* the file (no path) is extracted into more than one entry.
C23_Original ==
    (parsedBy = "parseRPGMaker" /\ file.kind = "json" /\ NullHeaded(file.value)) =>
        \A i, j \in 1..Len(fileEntries) :
            fileEntries[i].path = fileEntries[j].path => i = j

\* the kinds of line of a KAG script, by the first visible character
IsComment(line) ==
    \/ At(Trim(line), 1) = ";"
    \/ At(Trim(line), 1) = "/" /\ At(Trim(line), 2) = "/"
IsLabel(line) == At(Trim(line), 1) = "*"
IsAtCommand(line) == At(Trim(line), 1) = "@"

\* the line is one bracketed tag and nothing else
SingleTag(line) ==
    /\ Len(Trim(line)) >= 2
    /\ Trim(line)[1] = "["
    /\ Trim(line)[Len(Trim(line))] = "]"
    /\ \A j \in 2..(Len(Trim(line)) - 1) : Trim(line)[j] \notin {"[", "]", CR, LF}

\* position j of the text holds a visible character outside every tag
OutsideTags(text, j) ==
    /\ ~IsSpace(text[j])
    /\ text[j] \notin {"[", "]"}
    /\ LET lefts == {a \in 1..(j - 1) : text[a] \in {"[", "]"}}
       IN  lefts = {} \/ text[Greatest(lefts)] = "]"

\* the line mixes text with inline bracketed tags
Mixed(line) ==
    /\ ~IsComment(line) /\ ~IsLabel(line) /\ ~IsAtCommand(line)
    /\ \E a, b \in 1..Len(line) : a < b /\ line[a] = "[" /\ line[b] = "]"
    /\ \E j \in 1..Len(line) : OutsideTags(line, j)

EntriesAtLine(idx) ==
    {i \in 1..Len(fileEntries) : fileEntries[i].path = <<Key("line-"), Digits(idx)>>}

\* C15: parseKiriKiri extracts a line that mixes text with inline tags as one
\* entry whose original is the whole line; it extracts no line that is a
\* single bracketed tag, a comment, a label or an @-command; and
\* applyTranslations with engine kirikiri and no translated entry gives back
\* every line of the content.
C15_KiriKiriTags ==
    (phase # "loaded" /\ parsedBy = "parseKiriKiri" /\ file.kind = "text") =>
        /\ \A n \in 1..Len(SplitLines(file.value)) :
              LET line == SplitLines(file.value)[n]
              IN  /\ Mixed(line) =>
                        /\ Cardinality(EntriesAtLine(n - 1)) = 1
                        /\ \A i \in EntriesAtLine(n - 1) :
                              fileEntries[i].original = Str(line)
                  /\ (SingleTag(line) \/ IsComment(line) \/ IsLabel(line)
                        \/ IsAtCommand(line))
                        => EntriesAtLine(n - 1) = {}
        /\ (Applied /\ tag = "kirikiri" /\ Translated = {})
              => SplitLines(translatedContent.value) = SplitLines(file.value)

\* the script with the ruby line was parsed and exported untranslated: its
\* one entry is the ruby line
C15_Witness ==
    /\ Applied
    /\ parsedBy = "parseKiriKiri"
    /\ tag = "kirikiri"
    /\ Translated = {}
    /\ Len(fileEntries) = 1
    /\ fileEntries[1].original =
          Str(<<"Hello", " ", "[", "ruby", "]", "w", "[", "/", "ruby", "]", "!">>)
    /\ Len(SplitLines(file.value)) = 5
    /\ SingleTag(SplitLines(file.value)[2])

(***************************************************************************)
(* Part III: import and export.  onDrop detects the format of every        *)
(* dropped file by its name and content and builds the project from the    *)
(* parsers' entries; handleDownload selects the entries of each file by    *)
(* its name and runs applyTranslations on the file's snapshot.             *)
(***************************************************************************)
\* a table in which a dotted key and a nested key spell the same path
DottedTwice ==
    Obj(<<Member("a.b", Str(<<"Yo">>)),
          Member("a", Obj(<<Member("b", Str(<<"Hi">>))>>))>>)

\* a map whose second event has no `pages`
MapIncomplete ==
    Obj(<<Member("events",
            Arr(<<Null,
                  Obj(<<Member("id", Num(1)),
                        Member("pages",
                          Arr(<<Obj(<<Member("list",
                                  Arr(<<ShowText(<<"Hello">>)>>))>>)>>))>>),
                  Obj(<<Member("id", Num(2))>>)>>))>>)

\* File: a name (its last character group is the extension) and its text
File(name, content) == [name |-> name, content |-> content]

\* the files a user may drop; two of them, from different folders, have the
\* same name, broken.json is not a JSON text, and the name of scene.ks is the
\* end of the name of myscene.ks
Dropped ==
    <<File(<<"Map001", ".json">>, JSONFile("compact", MapData)),
      File(<<"strings", ".json">>, JSONFile("indent2", DottedTwice)),
      File(<<"strings", ".json">>, JSONFile("compact", GenericData)),
      File(<<"broken", ".json">>, TextFile(<<"{", "Hello">>)),
      File(<<"scene", ".ks">>,
           TextFile(<<"[", "r", "]", CR, LF, "Hello", CR, LF, "@", "wait">>)),
      File(<<"script", ".rpy">>,
           TextFile(<<"e", " ", Quote, "Hi", Quote, LF, Quote, "Yo", Quote>>)),
      File(<<"table", ".csv">>,
           TextFile(<<"name", ",", Quote, "Hello", Quote, LF, "1", ",", " ", "World">>)),
      File(<<"movie", ".srt">>, TextFile(<<"1", LF, "00:01", LF, "Hello">>)),
      File(<<"notes", ".txt">>, TextFile(<<"Hello", LF, "World">>)),
      File(<<"Map002", ".json">>, JSONFile("compact", MapIncomplete)),
      File(<<"my", "scene", ".ks">>, TextFile(<<"Intro", LF, "Bye">>))>>

\* acceptedFiles: one file, or two
DropLists ==
    {<<Dropped[a]>> : a \in 1..Len(Dropped)}
    \cup {<<Dropped[a], Dropped[b]>> : a, b \in 1..Len(Dropped)}

\* file.name.endsWith(ext)
EndsWith(name, ext) == Len(name) > 0 /\ name[Len(name)] = ext

\* the parsers put the file's name into every id: `<kind>-<filename>-<...>`
Named(entries, name) ==
    [i \in 1..Len(entries) |->
        [entries[i] EXCEPT !.id = [file |-> name, kind |-> @.kind, of |-> @.of]]]

\* the unknown-format fallback: one entry with the whole content, path "raw"
RawEntry(content) == Entry("raw", <<>>, Str(content.value), <<Key("raw")>>)

Detected(engine, entries) == [engine |-> engine, entries |-> entries]

\* Variant: a .json file that fails to parse falls back to the raw entry.
ImportFile_RawOnFailure(f) ==
    IF EndsWith(f.name, ".json")
    THEN IF f.content.kind # "json" \/ Nullish(f.content.value)
         THEN Detected("generic", Named(<<RawEntry(f.content)>>, f.name))
         ELSE IF \/ Truthy(Prop(f.content.value, "events"))
                 \/ (f.content.value.k = "array" /\ Prop(f.content.value, "0") = Null)
         THEN Detected("rpgmaker", Named(parseRPGMaker(f.content), f.name))
         ELSE Detected("unity", Named(parseGenericJSON(f.content), f.name))
    ELSE IF EndsWith(f.name, ".ks") \/ EndsWith(f.name, ".tjs")
    THEN Detected("kirikiri", Named(parseKiriKiri(f.content), f.name))
    ELSE IF EndsWith(f.name, ".rpy")
    THEN Detected("renpy", Named(parseRenPy(f.content), f.name))
    ELSE IF EndsWith(f.name, ".csv")
    THEN Detected("generic", Named(parseCSV(f.content), f.name))
    ELSE IF EndsWith(f.name, ".srt")
    THEN Detected("subtitles", Named(parseSRT(f.content), f.name))
    ELSE Detected("generic", Named(<<RawEntry(f.content)>>, f.name))

\* the body of `for (const file of acceptedFiles)`: the engine detected for
\* the file and the entries it adds.  JSON.parse throws on a text that is not
\* JSON, and `data.events` throws on null: the catch runs parseGenericJSON.
ImportFile(f) ==
    IF EndsWith(f.name, ".json")
    THEN IF f.content.kind # "json" \/ Nullish(f.content.value)
         THEN Detected("generic", Named(parseGenericJSON(f.content), f.name))
         ELSE IF \/ Truthy(Prop(f.content.value, "events"))
                 \/ (f.content.value.k = "array" /\ Prop(f.content.value, "0") = Null)
         THEN Detected("rpgmaker", Named(parseRPGMaker(f.content), f.name))
         ELSE Detected("unity", Named(parseGenericJSON(f.content), f.name))
    ELSE IF EndsWith(f.name, ".ks") \/ EndsWith(f.name, ".tjs")
    THEN Detected("kirikiri", Named(parseKiriKiri(f.content), f.name))
    ELSE IF EndsWith(f.name, ".rpy")
    THEN Detected("renpy", Named(parseRenPy(f.content), f.name))
    ELSE IF EndsWith(f.name, ".csv")
    THEN Detected("generic", Named(parseCSV(f.content), f.name))
    ELSE IF EndsWith(f.name, ".srt")
    THEN Detected("subtitles", Named(parseSRT(f.content), f.name))
    ELSE Detected("generic", Named(<<RawEntry(f.content)>>, f.name))

InitImport ==
    /\ project = NoProject
    /\ tm = EmptyTM
    /\ targetLang = "Indonesian"
    /\ useTM = TRUE
    /\ isTranslating = FALSE
    /\ run = IdleRun
    /\ lastDeps = <<0, "Indonesian", TRUE>>
    /\ nextId = 1
    /\ ops = 0
    /\ op = NoOp
    /\ file = NoContent
    /\ fileEntries = <<>>
    /\ parsedBy = "none"
    /\ tag = "none"
    /\ translatedContent = <<>>
    /\ reapplied = NoContent
    /\ request = NoRequest
    /\ itemResults = <<>>
    /\ response = NoResponse
    /\ phase = "idle"

\* Variant: the project is tagged with the engine of the first file.
onDropFiles_FirstEngine(acceptedFiles) ==
    /\ phase = "idle"
    /\ \E allEntries \in {Concat([i \in 1..Len(acceptedFiles) |->
                                    ImportFile(acceptedFiles[i]).entries])} :
          IF Len(allEntries) > 0
          THEN /\ project' = [id |-> nextId,
                              engine |-> ImportFile(acceptedFiles[1]).engine,
                              entries |-> allEntries, files |-> acceptedFiles]
               /\ nextId' = nextId + 1
               /\ phase' = "imported"
          ELSE UNCHANGED <<project, nextId, phase>>
    /\ op' = [NoOp EXCEPT !.name = "import"]
    /\ UNCHANGED <<tm, targetLang, useTM, isTranslating, run, lastDeps, ops,
                   file, fileEntries, parsedBy, tag, translatedContent, reapplied,
                   endpointVars>>

\* onDrop, with the files' texts: the project is set only when some file
\* yielded an entry, and it is tagged with the engine of the last file
onDropFiles(acceptedFiles) ==
    /\ phase = "idle"
    /\ \E allEntries \in {Concat([i \in 1..Len(acceptedFiles) |->
                                    ImportFile(acceptedFiles[i]).entries])} :
          IF Len(allEntries) > 0
          THEN /\ project' = [id |-> nextId,
                              engine |-> ImportFile(acceptedFiles[Len(acceptedFiles)]).engine,
                              entries |-> allEntries, files |-> acceptedFiles]
               /\ nextId' = nextId + 1
               /\ phase' = "imported"
          ELSE UNCHANGED <<project, nextId, phase>>
    /\ op' = [NoOp EXCEPT !.name = "import"]
    /\ UNCHANGED <<tm, targetLang, useTM, isTranslating, run, lastDeps, ops,
                   file, fileEntries, parsedBy, tag, translatedContent, reapplied, endpointVars>>

\* a translation is set on an entry, and with it on every entry of the
\* project that has the same original (batch result or manual edit)
setTranslated(i, text) ==
    /\ phase = "imported"
    /\ i \in 1..Len(project.entries)
    /\ project.entries[i].translated # text
    /\ \/ project.entries[i].translated # <<>>
       \/ Cardinality({project.entries[j].original :
                          j \in {jj \in 1..Len(project.entries) :
                                    project.entries[jj].translated # <<>>}})
             < MaxTranslated
    /\ project' = [project EXCEPT !.entries =
                     [j \in 1..Len(project.entries) |->
                        IF project.entries[j].original = project.entries[i].original
                        THEN [project.entries[j] EXCEPT !.translated = text]
                        ELSE project.entries[j]]]
    /\ op' = [NoOp EXCEPT !.name = "edit"]
    /\ UNCHANGED <<tm, targetLang, useTM, isTranslating, run, lastDeps, nextId, ops,
                   applyVars, endpointVars>>

\* name occurs in text as a run of consecutive characters
IsInfix(name, text) ==
    \E at \in 0..(Len(text) - Len(name)) :
        \A j \in 1..Len(name) : text[at + j] = name[j]

\* e.id.includes(file.name): the names of the catalogue end in an extension,
\* which occurs in an id inside the file name only
Includes(id, name) == IsInfix(name, id.file)

\* the text of a JSON document has LF line ends and its entries have no
\* line- or block- path: the line and block branches give it back as it is
Exported(f, entries, engine) ==
    IF f.content.kind = "json" /\ engine \notin JSONFamily
    THEN f.content
    ELSE applyTranslations(f.content,
                           SelectSeq(entries, LAMBDA e : Includes(e.id, f.name)),
                           engine)

\* handleDownload: the text written for each file of the project
handleDownload ==
    /\ phase = "imported"
    /\ translatedContent' = [f \in 1..Len(project.files) |->
                                Exported(project.files[f], project.entries,
                                         project.engine)]
    /\ tag' = project.engine
    /\ phase' = "exported"
    /\ op' = [NoOp EXCEPT !.name = "download"]
    /\ UNCHANGED <<project, tm, targetLang, useTM, isTranslating, run, lastDeps,
                   nextId, ops, file, fileEntries, parsedBy, reapplied, endpointVars>>

NextImport ==
    \/ \E acceptedFiles \in DropLists : onDropFiles(acceptedFiles)
    \/ \E i \in 1..Len(project.entries), text \in Translations : setTranslated(i, text)
    \/ handleDownload

SpecImport == InitImport /\ [][NextImport]_vars

(***************************************************************************)
(* Properties of import and export                                         *)
(***************************************************************************)
Imported == phase \in {"imported", "exported"}

\* C12 (as stated): after an import, no two entries of the project have the
\* same id.
C12_Original ==
    Imported =>
        \A i, j \in 1..Len(project.entries) :
            project.entries[i].id = project.entries[j].id => i = j

\* a file named *.json whose content is not a JSON text
Malformed(f) == EndsWith(f.name, ".json") /\ f.content.kind # "json"

EntriesOfFile(name) ==
    {i \in 1..Len(project.entries) : project.entries[i].id.file = name}

FilesNamed(name) ==
    {g \in 1..Len(project.files) : project.files[g].name = name}

\* the entries as the parsers made them
Untranslated(entries) ==
    [i \in 1..Len(entries) |-> [entries[i] EXCEPT !.translated = <<>>]]

\* C13 (as stated): a file named *.json whose content fails to parse as JSON
\* contributes exactly one entry to the imported project, with the whole
\* content as original and the path "raw", and is tagged generic.
C13_Original ==
    Imported =>
        \A g \in 1..Len(project.files) :
            Malformed(project.files[g]) =>
                /\ Cardinality(EntriesOfFile(project.files[g].name))
                      = Cardinality(FilesNamed(project.files[g].name))
                /\ \A i \in EntriesOfFile(project.files[g].name) :
                      /\ project.entries[i].original = Str(project.files[g].content.value)
                      /\ project.entries[i].path = <<Key("raw")>>
                /\ (g = Len(project.files) => project.engine = "generic")

\* C13 (amended): such a file contributes no entry; it is kept in the files
\* snapshot and, as the last file, tags the project generic; the entries of
\* the other files are those their parsers extract; and an import in which
\* no file yields an entry creates no project.
C13_MalformedJSON ==
    /\ Imported =>
          /\ \A g \in 1..Len(project.files) :
                Malformed(project.files[g]) =>
                    /\ EntriesOfFile(project.files[g].name) = {}
                    /\ (g = Len(project.files) => project.engine = "generic")
          /\ Untranslated(project.entries) =
                Concat([g \in 1..Len(project.files) |->
                          IF Malformed(project.files[g]) THEN <<>>
                          ELSE ImportFile(project.files[g]).entries])
    /\ (phase = "idle" /\ op.name = "import") => project = NoProject

\* a script and then a broken JSON file were imported: the project has the
\* script's entries only and is tagged generic
C13_Witness ==
    /\ Imported
    /\ Len(project.files) = 2
    /\ project.files[1].name = <<"scene", ".ks">>
    /\ Malformed(project.files[2])
    /\ project.engine = "generic"
    /\ Len(project.entries) = 1
    /\ project.entries[1].id.file = <<"scene", ".ks">>

LastFile == project.files[Len(project.files)]

\* C26: after an import the project's engine tag is the format detected for
\* the last file of the list, and export runs the Applier with that one
\* engine on every file of the project, whatever format was detected for it.
C26_LastFileEngine ==
    /\ Imported => project.engine = ImportFile(LastFile).engine
    /\ phase = "exported" =>
          /\ tag = ImportFile(LastFile).engine
          /\ \A g \in 1..Len(project.files) :
                translatedContent[g] =
                    Exported(project.files[g], project.entries,
                             ImportFile(LastFile).engine)

\* a script and then a subtitle file were imported and the script's line was
\* translated: the export, run as subtitles, is not what the script's own
\* engine writes, and the translation is not in it
C26_Witness ==
    /\ phase = "exported"
    /\ Len(project.files) = 2
    /\ project.files[1].name = <<"scene", ".ks">>
    /\ project.files[2].name = <<"movie", ".srt">>
    /\ project.engine = "subtitles"
    /\ \E i \in EntriesOfFile(<<"scene", ".ks">>) :
          /\ project.entries[i].translated = <<"Bonjour">>
          /\ ~IsInfix(<<"Bonjour">>, translatedContent[1].value)
    /\ translatedContent[1] # Exported(project.files[1], project.entries, "kirikiri")

\* the entries that were extracted from the file named name
ExtractedFrom(name) == SelectSeq(project.entries, LAMBDA e : e.id.file = name)

\* C27 (as stated): in a project whose files have different names, the text
\* exported for a file is the file with the translations of the entries
\* extracted from that file, and of no other file.
C27_Original ==
    (/\ phase = "exported"
     /\ \A g, h \in 1..Len(project.files) :
           project.files[g].name = project.files[h].name => g = h)
    => \A g \in 1..Len(project.files) :
          translatedContent[g] =
              Exported(project.files[g], ExtractedFrom(project.files[g].name),
                       project.engine)

\* parseRPGMaker's try block ends in its catch
Raises(content) ==
    /\ content.kind = "json"
    /\ ~Nullish(content.value)
    /\ InOrder(<<MapEvents(content.value), CommonEvents(content.value),
                 Actors(content.value), System(content.value),
                 DataTable(content.value), Troops(content.value)>>).threw

\* C24 (as stated): a file in whose processing parseRPGMaker raises an
\* exception contributes no entry to the imported project.
C24_Original ==
    Imported =>
        \A g \in 1..Len(project.files) :
            (/\ ImportFile(project.files[g]).engine = "rpgmaker"
             /\ Raises(project.files[g].content))
            => EntriesOfFile(project.files[g].name) = {}

KnownExtensions == {".json", ".ks", ".tjs", ".rpy", ".csv", ".srt"}

\* a file that onDrop imports through the unknown-format fallback
Fallback(f) == \A ext \in KnownExtensions : ~EndsWith(f.name, ext)

\* C14 (as stated): for a file imported through the unknown-format fallback
\* in a project tagged generic, the exported text is the translated text of
\* its "raw" entry when that is not empty, and the original content when it is.
C14_Original ==
    (phase = "exported" /\ project.engine = "generic") =>
        \A g \in 1..Len(project.files) :
            Fallback(project.files[g]) =>
                \A i \in EntriesOfFile(project.files[g].name) :
                    translatedContent[g] =
                        IF project.entries[i].translated # <<>>
                        THEN TextFile(project.entries[i].translated)
                        ELSE project.files[g].content

\* the cells of a CSV text, by row and column
Cells(text) ==
    [r \in 1..Len(SplitLines(text)) |-> SplitCommasFrom(SplitLines(text)[r], 1, 1)]

\* a text that fits into one cell
CellText(text) == \A j \in 1..Len(text) : text[j] \notin {LF, CR, ","}

\* the translated cell entries of a file: those whose text fits into a cell
TranslatedCells(name) ==
    {i \in EntriesOfFile(name) :
        /\ project.entries[i].id.kind = "csv"
        /\ project.entries[i].translated # <<>>
        /\ CellText(project.entries[i].translated)}

\* C18 (as stated): for a CSV file, the exported text has the translated text
\* of a cell entry row-r-col-c at row r, column c, and every cell without a
\* translated entry is unchanged.
C18_Original ==
    (phase = "exported" /\ project.engine = "generic") =>
        \A g \in 1..Len(project.files) :
            (/\ EndsWith(project.files[g].name, ".csv")
             /\ \A i \in EntriesOfFile(project.files[g].name) :
                   project.entries[i].translated # <<>> => i \in TranslatedCells(project.files[g].name))
            => LET old == Cells(project.files[g].content.value)
                   new == Cells(translatedContent[g].value)
                   name == project.files[g].name
               IN  /\ Len(new) = Len(old)
                   /\ \A r \in 1..Len(old) :
                         /\ Len(new[r]) = Len(old[r])
                         /\ \A c \in 1..Len(old[r]) :
                               IF \E i \in TranslatedCells(name) :
                                     project.entries[i].id.of = <<r - 1, c - 1>>
                               THEN \A i \in TranslatedCells(name) :
                                      project.entries[i].id.of = <<r - 1, c - 1>>
                                        => StripQuotes(Trim(new[r][c]))
                                              = project.entries[i].translated
                               ELSE new[r][c] = old[r][c]

(***************************************************************************)
(* Part IV: the translate endpoint.  The development server (express) and  *)
(* the serverless function (Vercel) take a POST with a list of texts and a *)
(* provider name; google and bing, and in the serverless function also     *)
(* mymemory and lingva, call their backend once per text inside a          *)
(* try/catch; every other provider name is served by one Gemini call.      *)
(***************************************************************************)
MaxTexts == 3

Servers == {"express", "vercel"}
Providers == {"google", "bing", "mymemory", "lingva", "gemini"}

\* req.body.texts when it is an array
RequestTexts ==
    UNION {[1..n -> {"Attack", "Guard"}] : n \in 0..MaxTexts}

\* the providers with a branch of their own in each handler
PerItem(server) ==
    IF server = "express" THEN {"google", "bing"}
    ELSE {"google", "bing", "mymemory", "lingva"}

Serving == request # NoRequest /\ response = NoResponse

ItemPending == [done |-> FALSE, failed |-> FALSE, text |-> ""]

\* the handler is entered: `!texts || !Array.isArray(texts)` answers 400
post(server, provider, texts, valid, apiKey) ==
    /\ ~Serving
    /\ request' = [server |-> server, provider |-> provider,
                   texts |-> IF valid THEN texts ELSE <<>>,
                   valid |-> valid, apiKey |-> apiKey]
    /\ itemResults' = [i \in 1..(IF valid THEN Len(texts) ELSE 0) |-> ItemPending]
    /\ response' = IF valid THEN NoResponse
                   ELSE [status |-> 400, translated |-> <<>>]
    /\ UNCHANGED <<appVars, applyVars>>

\* what one per-item call yields: the backend's answer, or the text itself
\* from the catch; mymemory and lingva also echo on an empty answer
ItemResult(provider, text, failed, answer) ==
    IF failed THEN text
    ELSE IF provider \in {"mymemory", "lingva"} /\ answer = "" THEN text
    ELSE answer

\* one per-item call settles.  The serverless function awaits the calls one
\* after the other; the development server starts them all (Promise.all) and
\* they settle in any order, each into its own position.
translateItem(i, failed, answer) ==
    /\ Serving
    /\ request.provider \in PerItem(request.server)
    /\ i \in 1..Len(itemResults)
    /\ ~itemResults[i].done
    /\ request.server = "vercel" => \A j \in 1..(i - 1) : itemResults[j].done
    /\ itemResults' = [itemResults EXCEPT
                         ![i] = [done |-> TRUE, failed |-> failed,
                                 text |-> ItemResult(request.provider,
                                                     request.texts[i], failed, answer)]]
    /\ UNCHANGED <<appVars, applyVars, request, response>>

\* res.json({ translated: results })
respondResults ==
    /\ Serving
    /\ request.provider \in PerItem(request.server)
    /\ \A i \in 1..Len(itemResults) : itemResults[i].done
    /\ response' = [status |-> 200,
                    translated |-> [i \in 1..Len(itemResults) |-> itemResults[i].text]]
    /\ UNCHANGED <<appVars, applyVars, request, itemResults>>

\* what JSON.parse of the model's text may be: a list of k <= n strings
\* ("[]" when the text is empty)
GeminiAnswers(n) ==
    UNION {[1..k -> Answers] : k \in {kk \in 0..n : kk = 0 \/ n - kk <= 1}}

\* the default branch: one generateContent call for the whole list.  An
\* exception of the call or of JSON.parse reaches the outer catch, which
\* answers 500; the serverless function answers 500 without a call when no
\* API key is configured, and the development server calls with the key "".
generateContent(failed, parsed) ==
    /\ Serving
    /\ request.provider \notin PerItem(request.server)
    /\ ~request.apiKey => failed
    /\ response' = IF failed THEN [status |-> 500, translated |-> <<>>]
                   ELSE [status |-> 200, translated |-> parsed]
    /\ UNCHANGED <<appVars, applyVars, request, itemResults>>

InitEndpoint == InitImport

NextEndpoint ==
    \/ \E server \in Servers, provider \in Providers, texts \in RequestTexts,
          valid \in BOOLEAN, apiKey \in BOOLEAN :
          post(server, provider, texts, valid, apiKey)
    \/ \E i \in 1..Len(itemResults), failed \in BOOLEAN, answer \in Answers :
          translateItem(i, failed, answer)
    \/ respondResults
    \/ \E failed \in BOOLEAN, parsed \in GeminiAnswers(Len(request.texts)) :
          generateContent(failed, parsed)

SpecEndpoint == InitEndpoint /\ [][NextEndpoint]_vars

(***************************************************************************)
(* Properties of the endpoint                                              *)
(***************************************************************************)
\* C25 (as stated): for every backend, a POST with a list of n texts is
\* answered with a list of exactly n results in which every item whose
\* backend call failed is the input text; the endpoint never fails the batch.
C25_Original ==
    (request # NoRequest /\ request.valid /\ response # NoResponse) =>
        /\ response.status = 200
        /\ Len(response.translated) = Len(request.texts)
        /\ \A i \in 1..Len(itemResults) :
              itemResults[i].failed => response.translated[i] = request.texts[i]

====
